---- MODULE Spec2Model ----
(***************************************************************************)
(* The offer lifecycle of the SHH relay node: ShhNode.handleOffer,         *)
(* validateOffer, stop and waitForActiveOffers, the wallet rotation of     *)
(* WalletManager, TransactionExecutor.execute, the claim and receipt calls *)
(* of DispatcherClient, the heartbeat timer of ShhNode, the poll loop of   *)
(* DispatcherClient and the counters of Metrics.                           *)
(*                                                                         *)
(* The runtime is single-threaded and cooperative: one action of the model *)
(* is the code that runs between two suspension points (await) of one      *)
(* async function.  Time is counted in milliseconds and advances in steps  *)
(* of the drain poll interval.                                             *)
(***************************************************************************)
EXTENDS Integers, Sequences, FiniteSets, TLC

VARIABLES
  relayKeypairs,      \* WalletManager.relayKeypairs
  currentRelayIndex,  \* WalletManager.currentRelayIndex
  walletLog,          \* history: the wallets getNextRelayWallet returned, in call order
  isRunning,          \* ShhNode.isRunning
  activeOffers,       \* ShhNode.activeOffers: Map offer.id -> Offer
  counters,           \* Metrics.counters
  now,                \* Date.now()
  delivered,          \* number of handleOffer invocations so far
  handlers,           \* the handleOffer invocations: position and locals of each
  stopCall,           \* the stop() invocation: position, drain start, pending timer
  feed,               \* the offers the dispatcher may deliver
  poolCalls,          \* number of direct getNextRelayWallet calls (wallet pool driver)
  heartbeat,          \* ShhNode.heartbeatInterval and the timer callbacks in progress
  poller,             \* DispatcherClient.pollOffers: the pending poll timers
  claimCall,          \* the last direct acceptOffer call (dispatcher driver)
  probe,              \* the last direct call of a query operation: its input and result
  proc                \* the process: position of main, fault handlers, exit code

vars == <<relayKeypairs, currentRelayIndex, walletLog, isRunning, activeOffers,
          counters, now, delivered, handlers, stopCall, feed, poolCalls,
          heartbeat, poller, claimCall, probe, proc>>

-----------------------------------------------------------------------------
(* Bounds of the model *)

MaxDeliveries == 2    \* handleOffer invocations in one behaviour
MaxRelay == 2         \* largest relay wallet pool
maxConcurrent == 1    \* config.node.maxConcurrent
MaxTicks == 1         \* free clock ticks in one behaviour
MaxPoolCalls == 6     \* direct getNextRelayWallet calls in one behaviour
MaxBeats == 3         \* firings of the heartbeat timer in one behaviour
MaxPolls == 2         \* the polls are counted modulo MaxPolls + 1
MaxWallets == 3       \* largest relay wallet pool of the balance queries
MaxCalls == 2         \* requests signed in one behaviour

(* Program constants *)

MaxPerTxLamports == 500000000   \* default of MAX_PER_TX_LAMPORTS
DrainTimeoutMs == 30000         \* waitForActiveOffers(30000)
PollIntervalMs == 1000          \* setTimeout(resolve, 1000)
AtaCreationFee == 2000000       \* 0.002 * LAMPORTS_PER_SOL
MinBalanceLamports == 10000000  \* minBalance = 0.01 SOL, in lamports
ActiveLamports == 1000000       \* isActive: balanceSOL >= 0.001, in lamports

-----------------------------------------------------------------------------
(* Optional values: <<>> is undefined, <<v>> is v *)

None == <<>>
Some(v) == <<v>>
IsSome(o) == Len(o) = 1
Get(o) == o[1]

-----------------------------------------------------------------------------
(* parseInt(string): a string is a sequence of characters.  Leading        *)
(* whitespace is skipped, one sign is accepted, then the longest prefix of *)
(* decimal digits is read; no digit gives NaN.                             *)

NaN == [nan |-> TRUE]
Num(n) == [nan |-> FALSE, val |-> n]

Digits == {"0", "1", "2", "3", "4", "5", "6", "7", "8", "9"}

DigitVal(c) ==
  CASE c = "0" -> 0 [] c = "1" -> 1 [] c = "2" -> 2 [] c = "3" -> 3
    [] c = "4" -> 4 [] c = "5" -> 5 [] c = "6" -> 6 [] c = "7" -> 7
    [] c = "8" -> 8 [] c = "9" -> 9

RECURSIVE SkipSpace(_)
SkipSpace(s) ==
  IF s # <<>> /\ Head(s) = " " THEN SkipSpace(Tail(s)) ELSE s

RECURSIVE ReadDigits(_, _)
ReadDigits(s, acc) ==
  IF s # <<>> /\ Head(s) \in Digits
    THEN ReadDigits(Tail(s), acc * 10 + DigitVal(Head(s)))
    ELSE acc

parseInt(str) ==
  LET s == SkipSpace(str)
      neg == s # <<>> /\ Head(s) = "-"
      body == IF s # <<>> /\ Head(s) \in {"-", "+"} THEN Tail(s) ELSE s
  IN IF body = <<>> \/ Head(body) \notin Digits
       THEN NaN
       ELSE Num(IF neg THEN 0 - ReadDigits(body, 0) ELSE ReadDigits(body, 0))

\* a > b in JavaScript, a the result of parseInt: false when a is NaN
GreaterThan(a, b) == ~a.nan /\ a.val > b

-----------------------------------------------------------------------------
(* Offers (types/index.ts).  recipient is abstracted to whether            *)
(* new PublicKey(recipient) accepts it.                                    *)

Offer(id, partId, asset, amount, recipientOk, fee, expiresAt) ==
  [id |-> id, partId |-> partId, asset |-> asset, amount |-> amount,
   recipientOk |-> recipientOk, feeLamports |-> fee, expiresAt |-> expiresAt]

Amt10M == <<"1", "0", "0", "0", "0", "0", "0", "0">>
Amt600M == <<"6", "0", "0", "0", "0", "0", "0", "0", "0">>
Amt500M1 == <<"5", "0", "0", "0", "0", "0", "0", "0", "1">>

\* the offers the dispatcher delivers: a base-asset offer, two over the
\* per-tx ceiling (one with an expiry), one of an unsupported asset, one with
\* a recipient that is no public key
CoreOffers ==
  { Offer("o1", "p1", "SOL", Amt10M, TRUE, 5000, None),
    Offer("o2", "p2", "SOL", Amt600M, TRUE, 5000, None),
    Offer("o3", "p3", "SOL", Amt500M1, TRUE, 7000, Some(1000)),
    Offer("o4", "p4", "BTC", Amt10M, TRUE, 5000, None),
    Offer("o5", "p5", "SOL", Amt10M, FALSE, 5000, None) }

-----------------------------------------------------------------------------
(* WalletManager *)

Keypair(i) == [publicKey |-> i]

\* getNextRelayWallet advancing the cursor before it reads the wallet
getNextRelayWalletPreIncrement(keys, idx) ==
  IF Len(keys) = 0
    THEN [threw |-> TRUE, error |-> <<"No relay wallets available">>,
          wallet |-> None, index |-> idx]
    ELSE [threw |-> FALSE, error |-> <<>>,
          wallet |-> Some(keys[((idx + 1) % Len(keys)) + 1]),
          index |-> (idx + 1) % Len(keys)]

\* getNextRelayWallet leaving the cursor where it is
getNextRelayWalletNoAdvance(keys, idx) ==
  IF Len(keys) = 0
    THEN [threw |-> TRUE, error |-> <<"No relay wallets available">>,
          wallet |-> None, index |-> idx]
    ELSE [threw |-> FALSE, error |-> <<>>,
          wallet |-> Some(keys[idx + 1]), index |-> idx]

\* getNextRelayWallet on pool keys with cursor idx: the wallet returned or
\* the error thrown, and the cursor afterwards
getNextRelayWallet(keys, idx) ==
  IF Len(keys) = 0
    THEN [threw |-> TRUE, error |-> <<"No relay wallets available">>,
          wallet |-> None, index |-> idx]
    ELSE [threw |-> FALSE, error |-> <<>>,
          wallet |-> Some(keys[idx + 1]), index |-> (idx + 1) % Len(keys)]

-----------------------------------------------------------------------------
(* WalletManager.getBalances and validateBalances.  A balance in SOL is    *)
(* kept in lamports (balanceSOL * LAMPORTS_PER_SOL), a USDC balance in its *)
(* smallest unit.  The chain answers the queries about one wallet with     *)
(* [sol, usdc]: sol is <<lamports>> or <<>> when connection.getBalance     *)
(* threw, usdc is <<units>> or <<>> when the token account lookup threw.   *)

Answer(sol, usdc) == [sol |-> sol, usdc |-> usdc]

\* the entry pushed for one wallet
WalletBalance(keypair, answer) ==
  IF IsSome(answer.sol)
    THEN [publicKey |-> keypair.publicKey, balanceSOL |-> Get(answer.sol),
          balanceUSDC |-> answer.usdc, isActive |-> Get(answer.sol) >= ActiveLamports]
    ELSE [publicKey |-> keypair.publicKey, balanceSOL |-> 0,
          balanceUSDC |-> None, isActive |-> FALSE]

\* getBalances stopping at the first wallet whose balance query threw
getBalancesAborts(keys, answers) ==
  LET failed == {i \in 1..Len(keys) : ~IsSome(answers[i].sol)}
      n == IF failed = {} THEN Len(keys)
           ELSE (CHOOSE i \in failed : \A j \in failed : i <= j) - 1
  IN [i \in 1..n |-> WalletBalance(keys[i], answers[i])]

getBalances(keys, answers) ==
  [i \in 1..Len(keys) |-> WalletBalance(keys[i], answers[i])]

\* balances.filter(w => w.balanceSOL < minBalance)
LowBalanceWallets(balances) ==
  SelectSeq(balances, LAMBDA w : w.balanceSOL < MinBalanceLamports)

\* validateBalances failing as soon as one wallet is low
validateBalancesAnyLow(balances) ==
  [warned |-> Len(LowBalanceWallets(balances)) > 0,
   threw |-> Len(LowBalanceWallets(balances)) > 0]

\* validateBalances, given what getBalances returned: whether it logged the
\* low-balance warning and whether it threw
validateBalances(balances) ==
  [warned |-> Len(LowBalanceWallets(balances)) > 0,
   threw |-> Len(LowBalanceWallets(balances)) = Len(balances)]

-----------------------------------------------------------------------------
(* DispatcherClient: a fetch either rejects (network error) or resolves    *)
(* with a response carrying an HTTP status.                                *)

Http(status) == [kind |-> "http", status |-> status]
NetErr == [kind |-> "reject", status |-> 0]

ClaimResponses == {Http(200), Http(409), Http(500), NetErr}
ReceiptResponses == {Http(200), Http(500), NetErr}

\* response.ok
ResponseOk(resp) == resp.status >= 200 /\ resp.status <= 299

\* acceptOffer taking every client error (4xx) for a lost claim
acceptOfferAnyClientError(resp) ==
  IF resp.kind = "reject" THEN "throw"
  ELSE IF resp.status >= 400 /\ resp.status <= 499 THEN "false"
  ELSE IF ~ResponseOk(resp) THEN "throw"
  ELSE "true"

\* acceptOffer: "true", "false", or "throw"
acceptOffer(resp) ==
  IF resp.kind = "reject" THEN "throw"
  ELSE IF resp.status = 409 THEN "false"
  ELSE IF ~ResponseOk(resp) THEN "throw"
  ELSE "true"

\* submitReceipt: "ok" or "throw"
submitReceipt(resp) ==
  IF resp.kind = "reject" THEN "throw"
  ELSE IF ~ResponseOk(resp) THEN "throw"
  ELSE "ok"

HeartbeatResponses == {Http(200), Http(500), NetErr}

\* sendHeartbeat: "ok", "warned" (returned after the warning
\* "Heartbeat failed: <statusText>") or "throw"
sendHeartbeat(resp) ==
  IF resp.kind = "reject" THEN "throw"
  ELSE IF ~ResponseOk(resp) THEN "warned"
  ELSE "ok"

-----------------------------------------------------------------------------
(* Metrics: the offer counters *)

ZeroCounters ==
  [offersReceived |-> 0, offersAccepted |-> 0, offersCompleted |-> 0, offersFailed |-> 0,
   heartbeats |-> 0, heartbeatErrors |-> 0]

recordOfferAccepted(c) == [c EXCEPT !.offersAccepted = @ + 1]
recordOfferCompleted(c) == [c EXCEPT !.offersCompleted = @ + 1]
recordOfferFailed(c) == [c EXCEPT !.offersFailed = @ + 1]
recordHeartbeat(c) == [c EXCEPT !.heartbeats = @ + 1]
recordHeartbeatError(c) == [c EXCEPT !.heartbeatErrors = @ + 1]

-----------------------------------------------------------------------------
(* ShhNode.validateOffer, on the active-offer map `active` at time t *)

\* offer.expiresAt && ...: undefined and 0 are falsy
Truthy(opt) == IsSome(opt) /\ Get(opt) # 0

\* the ceiling checked on the other asset
ExceedsPerTxWrongAsset(offer) ==
  offer.asset = "USDC" /\ GreaterThan(parseInt(offer.amount), MaxPerTxLamports)

\* the ceiling excluding the amount that equals it
ExceedsPerTxAtCeiling(offer) ==
  offer.asset = "SOL" /\ ~parseInt(offer.amount).nan
    /\ parseInt(offer.amount).val >= MaxPerTxLamports

ExceedsPerTx(offer) ==
  offer.asset = "SOL" /\ GreaterThan(parseInt(offer.amount), MaxPerTxLamports)

AtCapacity(active) == Cardinality(DOMAIN active) >= maxConcurrent

Expired(offer, t) == Truthy(offer.expiresAt) /\ t > Get(offer.expiresAt)

validateOffer(offer, active, t) ==
  IF ExceedsPerTx(offer) THEN FALSE
  ELSE IF AtCapacity(active) THEN FALSE
  ELSE IF Expired(offer, t) THEN FALSE
  ELSE TRUE

\* the warning validateOffer logs before it returns false
RejectWarning(offer, active, t) ==
  IF ExceedsPerTx(offer) THEN "exceeds per-tx limit"
  ELSE IF AtCapacity(active) THEN "At capacity"
  ELSE "has expired"

\* Map.set and Map.delete
MapSet(m, k, v) == [x \in DOMAIN m \cup {k} |-> IF x = k THEN v ELSE m[x]]
MapDelete(m, k) == [x \in DOMAIN m \ {k} |-> m[x]]

-----------------------------------------------------------------------------
(* TransactionExecutor.execute: receipts.  Error messages are sequences of *)
(* string parts; JavaScript numbers are Num(n) or NaN.  The timestamp of a *)
(* receipt is not modelled.                                                *)

Msg(text) == <<text>>
UnsupportedAsset(asset) == <<"Unsupported asset: ", asset>>
InvalidPublicKey == Msg("Invalid public key input")
BlockhashError == Msg("failed to get recent blockhash")
SendError == Msg("Transaction was not confirmed")

Signatures == {"SIG1", "SIG2"}

SuccessReceipt(offer, signature, spent) ==
  [partId |-> offer.partId, txSignature |-> signature, spentLamports |-> spent,
   feePaid |-> offer.feeLamports, success |-> TRUE, error |-> None]

\* a failure receipt that keeps the offer's fee
FailureReceiptKeepsFee(offer, message) ==
  [partId |-> offer.partId, txSignature |-> "", spentLamports |-> Num(0),
   feePaid |-> offer.feeLamports, success |-> FALSE, error |-> Some(message)]

FailureReceipt(offer, message) ==
  [partId |-> offer.partId, txSignature |-> "", spentLamports |-> Num(0),
   feePaid |-> 0, success |-> FALSE, error |-> Some(message)]

\* createUSDCTransfer: feesPaid, by whether getAccount found the recipient's token account
UsdcFeesPaid(ataExists) == IF ataExists THEN 0 ELSE AtaCreationFee

\* spentLamports taken from the fees for either asset
SpentLamportsFeesOnly(offer, ataExists) == Num(UsdcFeesPaid(ataExists))

\* spentLamports after the transfer was built
\* spentLamports counting the tokens transferred with the fees
SpentLamportsCountsTokens(offer, ataExists) ==
  IF offer.asset = "SOL" THEN parseInt(offer.amount)
  ELSE IF parseInt(offer.amount).nan THEN NaN
  ELSE Num(parseInt(offer.amount).val + UsdcFeesPaid(ataExists))

SpentLamports(offer, ataExists) ==
  IF offer.asset = "SOL" THEN parseInt(offer.amount) ELSE Num(UsdcFeesPaid(ataExists))


-----------------------------------------------------------------------------
(* State of one handleOffer invocation.  pc is the await it is suspended   *)
(* at: "claiming" (acceptOffer), "building" (createSOLTransfer or          *)
(* createUSDCTransfer inside execute), "sending"                           *)
(* (sendAndConfirmTransaction inside execute), "submitting"                *)
(* (submitReceipt); "idle" before the call and "done" after it returned.   *)
(* createsAta is whether the transaction built holds the instruction that  *)
(* creates the recipient's token account.                                  *)
(* outcome is history: how the invocation ended ("completed", "failed"     *)
(* for the catch block after the claim, "claimError" for the catch block   *)
(* at the claim, "lost", or the warning validateOffer logged).             *)

Handlers == 1..MaxDeliveries

IdleHandler ==
  [pc |-> "idle", offer |-> None, fromWallet |-> None, spentLamports |-> Num(0),
   createsAta |-> FALSE, signature |-> None, receipt |-> None, outcome |-> "none"]

\* the invocation returned: its locals are gone
Finished(outcome) == [IdleHandler EXCEPT !.pc = "done", !.outcome = outcome]

\* execute returned `receipt`; handleOffer calls submitReceipt with it
Submitting(hd, receipt) == [hd EXCEPT !.pc = "submitting", !.receipt = Some(receipt)]

OfferOf(h) == Get(handlers[h].offer)

InFlight(h) == handlers[h].pc \notin {"idle", "done"}

-----------------------------------------------------------------------------
(* handleOffer, from its call to the await of acceptOffer *)

\* handleOffer counting a rejected offer as a failed one
HandleOfferCountsRejection(h, offer) ==
  /\ delivered < MaxDeliveries
  /\ h = delivered + 1
  /\ delivered' = h
  /\ handlers' = [handlers EXCEPT ![h] =
       IF ~validateOffer(offer, activeOffers, now)
         THEN Finished(RejectWarning(offer, activeOffers, now))
         ELSE [@ EXCEPT !.pc = "claiming", !.offer = Some(offer)]]
  /\ counters' = IF ~validateOffer(offer, activeOffers, now)
                   THEN recordOfferFailed(counters) ELSE counters
  /\ UNCHANGED <<relayKeypairs, currentRelayIndex, walletLog, isRunning, activeOffers,
                 now, stopCall, feed, poolCalls, heartbeat, poller, claimCall,
                 probe, proc>>

\* handleOffer inserting the offer before it is claimed
HandleOfferInsertsEarly(h, offer) ==
  /\ delivered < MaxDeliveries
  /\ h = delivered + 1
  /\ delivered' = h
  /\ handlers' = [handlers EXCEPT ![h] =
       IF ~validateOffer(offer, activeOffers, now)
         THEN Finished(RejectWarning(offer, activeOffers, now))
         ELSE [@ EXCEPT !.pc = "claiming", !.offer = Some(offer)]]
  /\ activeOffers' = IF validateOffer(offer, activeOffers, now)
                       THEN MapSet(activeOffers, offer.id, offer) ELSE activeOffers
  /\ UNCHANGED <<relayKeypairs, currentRelayIndex, walletLog, isRunning,
                 counters, now, stopCall, feed, poolCalls,
                 heartbeat, poller, claimCall,
                 probe, proc>>

HandleOffer(h, offer) ==
  /\ delivered < MaxDeliveries
  /\ h = delivered + 1
  /\ delivered' = h
  /\ handlers' = [handlers EXCEPT ![h] =
       IF ~validateOffer(offer, activeOffers, now)
         THEN Finished(RejectWarning(offer, activeOffers, now))
         ELSE [@ EXCEPT !.pc = "claiming", !.offer = Some(offer)]]
  /\ UNCHANGED <<relayKeypairs, currentRelayIndex, walletLog, isRunning, activeOffers,
                 counters, now, stopCall, feed, poolCalls,
                 heartbeat, poller, claimCall,
                 probe, proc>>

(* a catch block that leaves the offer in the active set *)
CatchBlockLeak(h, outcome) ==
  /\ activeOffers' = activeOffers
  /\ counters' = recordOfferFailed(counters)
  /\ handlers' = [handlers EXCEPT ![h] = Finished(outcome)]

(* a catch block that calls acceptOffer again after the claim threw *)
CatchBlockRetry(h, outcome) ==
  /\ activeOffers' = MapDelete(activeOffers, OfferOf(h).id)
  /\ counters' = recordOfferFailed(counters)
  /\ handlers' = [handlers EXCEPT ![h] =
       IF outcome = "claimError" THEN [@ EXCEPT !.outcome = outcome] ELSE Finished(outcome)]

(* a catch block that throws the error on to the caller of handleOffer *)
CatchBlockRethrows(h, outcome) ==
  /\ activeOffers' = MapDelete(activeOffers, OfferOf(h).id)
  /\ counters' = recordOfferFailed(counters)
  /\ handlers' = [handlers EXCEPT ![h] = Finished("raised")]

(* the catch block of handleOffer *)
CatchBlock(h, outcome) ==
  /\ activeOffers' = MapDelete(activeOffers, OfferOf(h).id)
  /\ counters' = recordOfferFailed(counters)
  /\ handlers' = [handlers EXCEPT ![h] = Finished(outcome)]

(* a lost claim counted as a failed offer *)
ClaimLostCounted(h) ==
  /\ handlers' = [handlers EXCEPT ![h] = Finished("lost")]
  /\ counters' = recordOfferFailed(counters)
  /\ UNCHANGED activeOffers

(* acceptOffer returned false *)
ClaimLost(h) ==
  /\ handlers' = [handlers EXCEPT ![h] = Finished("lost")]
  /\ UNCHANGED <<activeOffers, counters>>

(* execute, from its call to its first await or to its return: the state  *)
(* of handler hd afterwards, given the result r of getNextRelayWallet      *)
ExecuteStart(hd, r) ==
  LET offer == Get(hd.offer)
  IN IF r.threw THEN Submitting(hd, FailureReceipt(offer, r.error))
     ELSE IF ~offer.recipientOk
       THEN Submitting([hd EXCEPT !.fromWallet = r.wallet],
                       FailureReceipt(offer, InvalidPublicKey))
     ELSE IF offer.asset \in {"SOL", "USDC"}
       THEN [hd EXCEPT !.pc = "building", !.fromWallet = r.wallet]
     ELSE Submitting([hd EXCEPT !.fromWallet = r.wallet],
                     FailureReceipt(offer, UnsupportedAsset(offer.asset)))

(* a won claim whose execute takes the wallet only after the recipient    *)
(* was accepted                                                            *)
ClaimWonLateWallet(h) ==
  LET r == getNextRelayWallet(relayKeypairs, currentRelayIndex)
      taken == OfferOf(h).recipientOk /\ ~r.threw
  IN /\ activeOffers' = MapSet(activeOffers, OfferOf(h).id, OfferOf(h))
     /\ counters' = recordOfferAccepted(counters)
     /\ currentRelayIndex' = IF taken THEN r.index ELSE currentRelayIndex
     /\ walletLog' = IF taken THEN Append(walletLog, Get(r.wallet)) ELSE walletLog
     /\ handlers' = [handlers EXCEPT ![h] = ExecuteStart(@, r)]

(* acceptOffer returned true: insert, count, call execute, which takes the *)
(* next relay wallet                                                       *)
ClaimWon(h) ==
  LET r == getNextRelayWallet(relayKeypairs, currentRelayIndex)
  IN /\ activeOffers' = MapSet(activeOffers, OfferOf(h).id, OfferOf(h))
     /\ counters' = recordOfferAccepted(counters)
     /\ currentRelayIndex' = r.index
     /\ walletLog' = IF r.threw THEN walletLog ELSE Append(walletLog, Get(r.wallet))
     /\ handlers' = [handlers EXCEPT ![h] = ExecuteStart(@, r)]

(* handleOffer resumes from the await of acceptOffer *)
ClaimReturn(h, resp) ==
  /\ handlers[h].pc = "claiming"
  /\ CASE acceptOffer(resp) = "false" ->
            ClaimLost(h) /\ UNCHANGED <<currentRelayIndex, walletLog>>
       [] acceptOffer(resp) = "throw" ->
            CatchBlock(h, "claimError") /\ UNCHANGED <<currentRelayIndex, walletLog>>
       [] acceptOffer(resp) = "true" ->
            ClaimWon(h)
  /\ UNCHANGED <<relayKeypairs, isRunning, now, delivered, stopCall, feed, poolCalls,
                 heartbeat, poller, claimCall,
                 probe, proc>>

(* execute resumes after the transfer was built or its construction threw; *)
(* ataExists is what getAccount found (read for USDC only)                 *)
BuildReturn(h, ok, ataExists) ==
  /\ handlers[h].pc = "building"
  /\ handlers' = [handlers EXCEPT ![h] =
       IF ok
         THEN [@ EXCEPT !.pc = "sending",
                        !.createsAta = (OfferOf(h).asset = "USDC" /\ ~ataExists),
                        !.spentLamports = SpentLamports(OfferOf(h), ataExists)]
         ELSE Submitting(@, FailureReceipt(OfferOf(h), BlockhashError))]
  /\ UNCHANGED <<relayKeypairs, currentRelayIndex, walletLog, isRunning, activeOffers,
                 counters, now, delivered, stopCall, feed, poolCalls,
                 heartbeat, poller, claimCall,
                 probe, proc>>

(* execute resumes after sendAndConfirmTransaction returned a signature    *)
(* (result = <<signature>>) or threw (result = <<>>), and returns          *)
SendReturn(h, result) ==
  /\ handlers[h].pc = "sending"
  /\ handlers' = [handlers EXCEPT ![h] =
       IF IsSome(result)
         THEN Submitting([@ EXCEPT !.signature = result],
                         SuccessReceipt(OfferOf(h), Get(result), @.spentLamports))
         ELSE Submitting(@, FailureReceipt(OfferOf(h), SendError))]
  /\ UNCHANGED <<relayKeypairs, currentRelayIndex, walletLog, isRunning, activeOffers,
                 counters, now, delivered, stopCall, feed, poolCalls,
                 heartbeat, poller, claimCall,
                 probe, proc>>

(* submitReceipt returned *)
ReceiptSubmitted(h) ==
  /\ activeOffers' = MapDelete(activeOffers, OfferOf(h).id)
  /\ counters' = recordOfferCompleted(counters)
  /\ handlers' = [handlers EXCEPT ![h] = Finished("completed")]

(* handleOffer submitting the receipt again after submitReceipt threw *)
SubmitReturnRetries(h, resp) ==
  /\ handlers[h].pc = "submitting"
  /\ IF submitReceipt(resp) = "ok"
       THEN ReceiptSubmitted(h)
       ELSE /\ counters' = recordOfferFailed(counters)
            /\ handlers' = [handlers EXCEPT ![h].outcome = "failed"]
            /\ UNCHANGED activeOffers
  /\ UNCHANGED <<relayKeypairs, currentRelayIndex, walletLog, isRunning, now,
                 delivered, stopCall, feed, poolCalls,
                 heartbeat, poller, claimCall,
                 probe, proc>>

(* handleOffer resumes from the await of submitReceipt *)
SubmitReturn(h, resp) ==
  /\ handlers[h].pc = "submitting"
  /\ IF submitReceipt(resp) = "ok" THEN ReceiptSubmitted(h) ELSE CatchBlock(h, "failed")
  /\ UNCHANGED <<relayKeypairs, currentRelayIndex, walletLog, isRunning, now,
                 delivered, stopCall, feed, poolCalls,
                 heartbeat, poller, claimCall,
                 probe, proc>>

(* Date.now() advances *)
Tick ==
  /\ now < (MaxTicks + 1) * PollIntervalMs
  /\ now' = now + PollIntervalMs
  /\ UNCHANGED <<relayKeypairs, currentRelayIndex, walletLog, isRunning, activeOffers,
                 counters, delivered, handlers, stopCall, feed, poolCalls,
                 heartbeat, poller, claimCall,
                 probe, proc>>

-----------------------------------------------------------------------------
(* ShhNode.getHealthStatus and the /health and /ready handlers of          *)
(* HealthServer, given what getBalances returned                           *)

\* getHealthStatus calling every wallet below the minimum merely degraded
getHealthStatusNeverUnhealthy(wallets) ==
  IF Len(LowBalanceWallets(wallets)) > 0 THEN "degraded" ELSE "healthy"

\* status of getHealthStatus
getHealthStatus(wallets) ==
  IF Len(LowBalanceWallets(wallets)) > 0
    THEN IF Len(LowBalanceWallets(wallets)) = Len(wallets) THEN "unhealthy" ELSE "degraded"
    ELSE "healthy"

\* handleHealth: the HTTP status written
handleHealth(status) ==
  IF status = "healthy" THEN 200 ELSE IF status = "degraded" THEN 200 ELSE 503

\* handleReady: the HTTP status written
handleReady(status, wallets) ==
  IF status # "unhealthy" /\ \E i \in 1..Len(wallets) : wallets[i].isActive
    THEN 200 ELSE 503

-----------------------------------------------------------------------------
(* Direct callers of the balance queries and of the health endpoints: one  *)
(* call, with the answers of the chain chosen by the caller                *)

SolAnswers ==
  {None, Some(0), Some(5000000), Some(MinBalanceLamports - 1), Some(MinBalanceLamports),
   Some(20000000)}

UsdcAnswers == {None, Some(2500000)}

\* if the balance query throws, the token account is not looked up
WalletAnswers ==
  {Answer(sol, usdc) : sol \in SolAnswers \ {None}, usdc \in UsdcAnswers}
    \cup {Answer(None, None)}

ValidateBalancesCall(answers) ==
  /\ probe = None
  /\ probe' = Some([op |-> "validateBalances", answers |-> answers,
                    result |-> validateBalances(getBalances(relayKeypairs, answers))])
  /\ UNCHANGED <<relayKeypairs, currentRelayIndex, walletLog, isRunning, activeOffers,
                 counters, now, delivered, handlers, stopCall, feed, poolCalls,
                 heartbeat, poller, claimCall, proc>>

GetBalancesCall(answers) ==
  /\ probe = None
  /\ probe' = Some([op |-> "getBalances", answers |-> answers,
                    result |-> getBalances(relayKeypairs, answers)])
  /\ UNCHANGED <<relayKeypairs, currentRelayIndex, walletLog, isRunning, activeOffers,
                 counters, now, delivered, handlers, stopCall, feed, poolCalls,
                 heartbeat, poller, claimCall, proc>>

\* GET url on the health server
HealthRequest(url, answers) ==
  /\ probe = None
  /\ LET wallets == getBalances(relayKeypairs, answers)
         status == getHealthStatus(wallets)
     IN probe' = Some([op |-> url, answers |-> answers, status |-> status,
                       result |-> IF url = "/ready" THEN handleReady(status, wallets)
                                  ELSE handleHealth(status)])
  /\ UNCHANGED <<relayKeypairs, currentRelayIndex, walletLog, isRunning, activeOffers,
                 counters, now, delivered, handlers, stopCall, feed, poolCalls,
                 heartbeat, poller, claimCall, proc>>

-----------------------------------------------------------------------------
(* The process (main): pc is "start" before main runs, the await main is   *)
(* suspended at inside node.start() ("rpc", "balances", "ping", "health"), *)
(* "running" once start() returned, "exited" after process.exit.           *)
(* registered is whether the handlers of SIGINT, SIGTERM,                  *)
(* uncaughtException and unhandledRejection are set; steps lists the steps *)
(* of the startup that succeeded, in order, failed is the step that        *)
(* failed; faults counts the faults handled, stops the calls of            *)
(* node.stop().                                                            *)

StartupSteps == <<"env", "keys", "rpc", "balances", "ping", "health", "subscribe">>

NewProcess ==
  [pc |-> "start", registered |-> FALSE, exitCode |-> None, steps |-> <<>>,
   failed |-> None, faults |-> 0, stops |-> 0]

\* main after node.start() returned
RunningProcess ==
  [NewProcess EXCEPT !.pc = "running", !.registered = TRUE, !.steps = StartupSteps]

-----------------------------------------------------------------------------
(* ShhNode.startHeartbeat: the interval timer and its callback.  A firing  *)
(* of the timer starts one invocation of the callback, which awaits        *)
(* getHealthStatus and then sendHeartbeat; invocations may overlap, and    *)
(* atStatus and atSend count those suspended at each await.  fired counts  *)
(* the firings, warned the "Heartbeat failed: <statusText>" warnings of    *)
(* sendHeartbeat, caught the "Heartbeat failed:" warnings of the catch     *)
(* block of the callback.  getHealthStatus does not throw: getBalances     *)
(* catches the errors of every balance query.                              *)

NoHeartbeat ==
  [armed |-> FALSE, fired |-> 0, atStatus |-> 0, atSend |-> 0, warned |-> 0, caught |-> 0]

\* startHeartbeat(): heartbeatInterval = setInterval(...)
startHeartbeat(hb) == [hb EXCEPT !.armed = TRUE]

\* if (heartbeatInterval) clearInterval(heartbeatInterval)
clearInterval(hb) == [hb EXCEPT !.armed = FALSE]

(* the interval timer fires: the callback runs to the await of getHealthStatus *)
HeartbeatFire ==
  /\ heartbeat.armed
  /\ heartbeat.fired < MaxBeats
  /\ heartbeat' = [heartbeat EXCEPT !.fired = @ + 1, !.atStatus = @ + 1]
  /\ UNCHANGED <<relayKeypairs, currentRelayIndex, walletLog, isRunning, activeOffers,
                 counters, now, delivered, handlers, stopCall, feed, poolCalls,
                 poller, claimCall,
                 probe, proc>>

(* getHealthStatus returned: the callback calls sendHeartbeat, which awaits fetch *)
HealthStatusReturn ==
  /\ heartbeat.atStatus > 0
  /\ heartbeat' = [heartbeat EXCEPT !.atStatus = @ - 1, !.atSend = @ + 1]
  /\ UNCHANGED <<relayKeypairs, currentRelayIndex, walletLog, isRunning, activeOffers,
                 counters, now, delivered, handlers, stopCall, feed, poolCalls,
                 poller, claimCall,
                 probe, proc>>

(* the fetch of sendHeartbeat settled: sendHeartbeat returns or throws and *)
(* the callback records the heartbeat or, in its catch block, the error    *)
HeartbeatReturn(resp) ==
  /\ heartbeat.atSend > 0
  /\ heartbeat' = [heartbeat EXCEPT
       !.atSend = @ - 1,
       !.warned = IF sendHeartbeat(resp) = "warned" THEN @ + 1 ELSE @,
       !.caught = IF sendHeartbeat(resp) = "throw" THEN @ + 1 ELSE @]
  /\ counters' = IF sendHeartbeat(resp) = "throw"
                   THEN recordHeartbeatError(counters)
                   ELSE recordHeartbeat(counters)
  /\ UNCHANGED <<relayKeypairs, currentRelayIndex, walletLog, isRunning, activeOffers,
                 now, delivered, handlers, stopCall, feed, poolCalls, poller, claimCall,
                 probe, proc>>

-----------------------------------------------------------------------------
(* DispatcherClient.subscribeToOffers and pollOffers.  pending counts the  *)
(* poll timers set and not yet fired; polls counts the polls modulo        *)
(* MaxPolls + 1; lastThrew is whether the try block of the last poll       *)
(* threw (the warning "Failed to poll offers" was logged).  The try block  *)
(* of poll only logs: it fetches no offer and calls no callback.           *)

NoPoller == [pending |-> 0, polls |-> 0, lastThrew |-> FALSE]

\* subscribeToOffers(): pollOffers() sets the first timer
subscribeToOffers(pl) == [pl EXCEPT !.pending = @ + 1]

PollOutcomes == {"ok", "threw"}

\* poll giving up after its try block threw
PollFireStopsOnError(outcome) ==
  /\ poller.pending > 0
  /\ poller' = [poller EXCEPT
       !.pending = IF outcome = "threw" THEN @ - 1 ELSE (@ - 1) + 1,
       !.polls = (@ + 1) % (MaxPolls + 1),
       !.lastThrew = (outcome = "threw")]
  /\ UNCHANGED <<relayKeypairs, currentRelayIndex, walletLog, isRunning, activeOffers,
                 counters, now, delivered, handlers, stopCall, feed, poolCalls,
                 heartbeat, claimCall,
                 probe, proc>>

(* a poll timer fires: poll runs its try block, whose outcome is `outcome`, *)
(* and sets the next timer                                                  *)
PollFire(outcome) ==
  /\ poller.pending > 0
  /\ poller' = [poller EXCEPT
       !.pending = (@ - 1) + 1,
       !.polls = (@ + 1) % (MaxPolls + 1),
       !.lastThrew = (outcome = "threw")]
  /\ UNCHANGED <<relayKeypairs, currentRelayIndex, walletLog, isRunning, activeOffers,
                 counters, now, delivered, handlers, stopCall, feed, poolCalls,
                 heartbeat, claimCall,
                 probe, proc>>

-----------------------------------------------------------------------------
(* A direct caller of DispatcherClient.acceptOffer: the response of the    *)
(* dispatcher and what acceptOffer made of it                              *)

HttpStatuses == 100..599

AcceptCall(resp) ==
  /\ claimCall' = Some([response |-> resp, result |-> acceptOffer(resp)])
  /\ UNCHANGED <<relayKeypairs, currentRelayIndex, walletLog, isRunning, activeOffers,
                 counters, now, delivered, handlers, stopCall, feed, poolCalls,
                 heartbeat, poller,
                 probe, proc>>

-----------------------------------------------------------------------------
(* ShhNode.stop and waitForActiveOffers.  pc of the stop() invocation:      *)
(* "idle" before the call, "sleeping" at the await of the poll timer,      *)
(* "disconnecting" at the await of dispatcher.disconnect(),                *)
(* "stoppingHealth" at the await of healthServer.stop(), "stopped" after   *)
(* it returned, "returned" after the early return of a node not running.   *)
(* warnings counts the "offers still active after timeout" warnings.       *)

IdleStop == [pc |-> "idle", start |-> 0, wakeAt |-> 0, warnings |-> 0]

\* waitForActiveOffers warning whenever it returns
DrainLoopAlwaysWarns(st, active, t, timeoutMs) ==
  IF Cardinality(DOMAIN active) > 0 /\ (t - st.start) < timeoutMs
    THEN [st EXCEPT !.pc = "sleeping", !.wakeAt = t + PollIntervalMs]
    ELSE [st EXCEPT !.pc = "disconnecting", !.warnings = @ + 1]

\* waitForActiveOffers(timeoutMs) at its loop condition, at time t with
\* the active-offer map `active`: sleep again, or warn if offers are left
\* and return to stop(), which calls dispatcher.disconnect()
DrainLoop(st, active, t, timeoutMs) ==
  IF Cardinality(DOMAIN active) > 0 /\ (t - st.start) < timeoutMs
    THEN [st EXCEPT !.pc = "sleeping", !.wakeAt = t + PollIntervalMs]
    ELSE [st EXCEPT !.pc = "disconnecting",
                    !.warnings = IF Cardinality(DOMAIN active) > 0 THEN @ + 1 ELSE @]

(* stop(), from its call to its first await *)
StopBegin ==
  /\ stopCall.pc = "idle"
  /\ IF ~isRunning
       THEN /\ stopCall' = [stopCall EXCEPT !.pc = "returned"]
            /\ UNCHANGED <<isRunning, heartbeat>>
       ELSE /\ isRunning' = FALSE
            /\ heartbeat' = clearInterval(heartbeat)
            /\ stopCall' =
                 IF Cardinality(DOMAIN activeOffers) > 0
                   THEN DrainLoop([stopCall EXCEPT !.start = now], activeOffers, now,
                                  DrainTimeoutMs)
                   ELSE [stopCall EXCEPT !.pc = "disconnecting"]
  /\ UNCHANGED <<relayKeypairs, currentRelayIndex, walletLog, activeOffers, counters,
                 now, delivered, handlers, feed, poolCalls, poller, claimCall,
                 probe, proc>>

(* a drain that empties the active set when it gives up *)
DrainWakeCancels ==
  /\ stopCall.pc = "sleeping"
  /\ now' = IF now < stopCall.wakeAt THEN stopCall.wakeAt ELSE now
  /\ stopCall' = DrainLoop(stopCall, activeOffers, now', DrainTimeoutMs)
  /\ activeOffers' = IF stopCall'.pc = "disconnecting" THEN <<>> ELSE activeOffers
  /\ UNCHANGED <<relayKeypairs, currentRelayIndex, walletLog, isRunning,
                 counters, delivered, handlers, feed, poolCalls,
                 heartbeat, poller, claimCall,
                 probe, proc>>

(* the poll timer of waitForActiveOffers fires, not before it is due *)
DrainWake ==
  /\ stopCall.pc = "sleeping"
  /\ now' = IF now < stopCall.wakeAt THEN stopCall.wakeAt ELSE now
  /\ stopCall' = DrainLoop(stopCall, activeOffers, now', DrainTimeoutMs)
  /\ UNCHANGED <<relayKeypairs, currentRelayIndex, walletLog, isRunning, activeOffers,
                 counters, delivered, handlers, feed, poolCalls,
                 heartbeat, poller, claimCall,
                 probe, proc>>

(* dispatcher.disconnect() returned; stop() calls healthServer.stop() *)
Disconnected ==
  /\ stopCall.pc = "disconnecting"
  /\ stopCall' = [stopCall EXCEPT !.pc = "stoppingHealth"]
  /\ UNCHANGED <<relayKeypairs, currentRelayIndex, walletLog, isRunning, activeOffers,
                 counters, now, delivered, handlers, feed, poolCalls,
                 heartbeat, poller, claimCall,
                 probe, proc>>

(* healthServer.stop() returned; stop() returns *)
HealthStopped ==
  /\ stopCall.pc = "stoppingHealth"
  /\ stopCall' = [stopCall EXCEPT !.pc = "stopped"]
  /\ UNCHANGED <<relayKeypairs, currentRelayIndex, walletLog, isRunning, activeOffers,
                 counters, now, delivered, handlers, feed, poolCalls,
                 heartbeat, poller, claimCall,
                 probe, proc>>

-----------------------------------------------------------------------------
(* A direct caller of WalletManager.getNextRelayWallet *)

PoolCall ==
  /\ poolCalls < MaxPoolCalls
  /\ poolCalls' = poolCalls + 1
  /\ LET r == getNextRelayWallet(relayKeypairs, currentRelayIndex)
     IN /\ currentRelayIndex' = r.index
        /\ walletLog' = IF r.threw THEN walletLog ELSE Append(walletLog, Get(r.wallet))
  /\ UNCHANGED <<relayKeypairs, isRunning, activeOffers, counters, now, delivered,
                 handlers, stopCall, feed, heartbeat, poller, claimCall,
                 probe, proc>>

-----------------------------------------------------------------------------
(* Specifications *)

Pool(n) == [i \in 1..n |-> Keypair(i)]

\* the node after start() has completed, with a pool of one or of MaxRelay wallets
Init ==
  /\ relayKeypairs \in {Pool(1), Pool(MaxRelay)}
  /\ currentRelayIndex = 0
  /\ walletLog = <<>>
  /\ isRunning = TRUE
  /\ activeOffers = <<>>
  /\ counters = ZeroCounters
  /\ now = PollIntervalMs
  /\ delivered = 0
  /\ handlers = [h \in Handlers |-> IdleHandler]
  /\ stopCall = IdleStop
  /\ feed = CoreOffers
  /\ poolCalls = 0
  /\ heartbeat = startHeartbeat(NoHeartbeat)
  /\ poller = subscribeToOffers(NoPoller)
  /\ claimCall = None
  /\ probe = None
  /\ proc = RunningProcess

Next ==
  \/ \E h \in Handlers, offer \in feed : HandleOffer(h, offer)
  \/ \E h \in Handlers, resp \in ClaimResponses : ClaimReturn(h, resp)
  \/ \E h \in Handlers, ok \in BOOLEAN, ataExists \in BOOLEAN : BuildReturn(h, ok, ataExists)
  \/ \E h \in Handlers, result \in {None} \cup {Some(s) : s \in Signatures} : SendReturn(h, result)
  \/ \E h \in Handlers, resp \in ReceiptResponses : SubmitReturn(h, resp)
  \/ Tick

Spec == Init /\ [][Next]_vars

(* The wallet pool alone: a pool of one to MaxRelay distinct keys, in any  *)
(* order, and direct calls of getNextRelayWallet                           *)

KeyIds == 1..(MaxRelay + 2)

Pools ==
  UNION { { p \in [1..n -> {Keypair(i) : i \in KeyIds}] :
              \A a, b \in 1..n : a # b => p[a] # p[b] } : n \in 1..MaxRelay }

InitPool ==
  /\ relayKeypairs \in Pools
  /\ currentRelayIndex = 0
  /\ walletLog = <<>>
  /\ isRunning = FALSE
  /\ activeOffers = <<>>
  /\ counters = ZeroCounters
  /\ now = PollIntervalMs
  /\ delivered = 0
  /\ handlers = [h \in Handlers |-> IdleHandler]
  /\ stopCall = IdleStop
  /\ feed = {}
  /\ poolCalls = 0
  /\ heartbeat = NoHeartbeat
  /\ poller = NoPoller
  /\ claimCall = None
  /\ probe = None
  /\ proc = RunningProcess

NextPool == PoolCall

SpecPool == InitPool /\ [][NextPool]_vars

(* Shutdown with one offer in flight: handleOffer was called with the      *)
(* base-asset offer, its claim was won, and execute awaits the transfer.   *)
(* No further offer is delivered.                                          *)

DrainOffer == Offer("o1", "p1", "SOL", Amt10M, TRUE, 5000, None)

InitDrain ==
  /\ relayKeypairs = Pool(MaxRelay)
  /\ currentRelayIndex = 1 % MaxRelay
  /\ walletLog = <<Keypair(1)>>
  /\ isRunning = TRUE
  /\ activeOffers = MapSet(<<>>, DrainOffer.id, DrainOffer)
  /\ counters = recordOfferAccepted(ZeroCounters)
  /\ now = PollIntervalMs
  /\ delivered = 1
  /\ handlers = [h \in Handlers |->
       IF h = 1
         THEN [IdleHandler EXCEPT !.pc = "building", !.offer = Some(DrainOffer),
                                  !.fromWallet = Some(Keypair(1))]
         ELSE IdleHandler]
  /\ stopCall = IdleStop
  /\ feed = {}
  /\ poolCalls = 0
  /\ heartbeat = startHeartbeat(NoHeartbeat)
  /\ poller = subscribeToOffers(NoPoller)
  /\ claimCall = None
  /\ probe = None
  /\ proc = RunningProcess

NextDrain ==
  \/ \E h \in Handlers, ok \in BOOLEAN, ataExists \in BOOLEAN : BuildReturn(h, ok, ataExists)
  \/ \E h \in Handlers, result \in {None} \cup {Some(s) : s \in Signatures} : SendReturn(h, result)
  \/ \E h \in Handlers, resp \in ReceiptResponses : SubmitReturn(h, resp)
  \/ Tick
  \/ StopBegin
  \/ DrainWake
  \/ Disconnected
  \/ HealthStopped

SpecDrain == InitDrain /\ [][NextDrain]_vars

\* timers fire and the awaited calls of stop() return; nothing makes a
\* handler of an offer progress
SpecDrainFair ==
  SpecDrain /\ WF_vars(DrainWake) /\ WF_vars(Disconnected) /\ WF_vars(HealthStopped)

(* Shutdown while offers are delivered: the running node with nothing in   *)
(* flight; handleOffer is called with the base-asset offer before, during  *)
(* and after stop().  The clock advances when the drain timer fires.       *)

InitStop ==
  /\ relayKeypairs = Pool(MaxRelay)
  /\ currentRelayIndex = 0
  /\ walletLog = <<>>
  /\ isRunning = TRUE
  /\ activeOffers = <<>>
  /\ counters = ZeroCounters
  /\ now = PollIntervalMs
  /\ delivered = 0
  /\ handlers = [h \in Handlers |-> IdleHandler]
  /\ stopCall = IdleStop
  /\ feed = {DrainOffer}
  /\ poolCalls = 0
  /\ heartbeat = startHeartbeat(NoHeartbeat)
  /\ poller = subscribeToOffers(NoPoller)
  /\ claimCall = None
  /\ probe = None
  /\ proc = RunningProcess

NextStop ==
  \/ \E h \in Handlers, offer \in feed : HandleOffer(h, offer)
  \/ \E h \in Handlers, resp \in ClaimResponses : ClaimReturn(h, resp)
  \/ \E h \in Handlers, ok \in BOOLEAN, ataExists \in BOOLEAN : BuildReturn(h, ok, ataExists)
  \/ \E h \in Handlers, result \in {None} \cup {Some(s) : s \in Signatures} : SendReturn(h, result)
  \/ \E h \in Handlers, resp \in ReceiptResponses : SubmitReturn(h, resp)
  \/ StopBegin
  \/ DrainWake
  \/ Disconnected
  \/ HealthStopped

SpecStop == InitStop /\ [][NextStop]_vars

(* Admission: the running node and offers that differ in what validateOffer *)
(* checks: one within every limit, one over the per-tx ceiling, one that    *)
(* expires between the first and the second clock value                     *)

AdmissionOffers ==
  { Offer("o1", "p1", "SOL", Amt10M, TRUE, 5000, None),
    Offer("o2", "p2", "SOL", Amt600M, TRUE, 5000, None),
    Offer("o6", "p6", "SOL", Amt10M, TRUE, 5000, Some(PollIntervalMs + 500)) }

InitAdmit ==
  /\ relayKeypairs = Pool(MaxRelay)
  /\ currentRelayIndex = 0
  /\ walletLog = <<>>
  /\ isRunning = TRUE
  /\ activeOffers = <<>>
  /\ counters = ZeroCounters
  /\ now = PollIntervalMs
  /\ delivered = 0
  /\ handlers = [h \in Handlers |-> IdleHandler]
  /\ stopCall = IdleStop
  /\ feed = AdmissionOffers
  /\ poolCalls = 0
  /\ heartbeat = startHeartbeat(NoHeartbeat)
  /\ poller = subscribeToOffers(NoPoller)
  /\ claimCall = None
  /\ probe = None
  /\ proc = RunningProcess

SpecAdmit == InitAdmit /\ [][Next]_vars

(* Expiry: the running node and offers that differ in expiresAt only: none, *)
(* the epoch (0), a time already past, and a time between the first and    *)
(* the second clock value                                                   *)

ExpiryOffers ==
  { Offer("o1", "p1", "SOL", Amt10M, TRUE, 5000, None),
    Offer("o7", "p7", "SOL", Amt10M, TRUE, 5000, Some(0)),
    Offer("o8", "p8", "SOL", Amt10M, TRUE, 5000, Some(PollIntervalMs - 500)),
    Offer("o6", "p6", "SOL", Amt10M, TRUE, 5000, Some(PollIntervalMs + 500)) }

InitExpiry ==
  /\ relayKeypairs = Pool(MaxRelay)
  /\ currentRelayIndex = 0
  /\ walletLog = <<>>
  /\ isRunning = TRUE
  /\ activeOffers = <<>>
  /\ counters = ZeroCounters
  /\ now = PollIntervalMs
  /\ delivered = 0
  /\ handlers = [h \in Handlers |-> IdleHandler]
  /\ stopCall = IdleStop
  /\ feed = ExpiryOffers
  /\ poolCalls = 0
  /\ heartbeat = startHeartbeat(NoHeartbeat)
  /\ poller = subscribeToOffers(NoPoller)
  /\ claimCall = None
  /\ probe = None
  /\ proc = RunningProcess

SpecExpiry == InitExpiry /\ [][Next]_vars

(* The secondary asset: the running node and USDC offers of two amounts,    *)
(* one of them the amount of the account-creation fee                       *)

Amt2M == <<"2", "0", "0", "0", "0", "0", "0">>

UsdcOffers ==
  { Offer("u1", "q1", "USDC", Amt10M, TRUE, 5000, None),
    Offer("u2", "q2", "USDC", Amt2M, TRUE, 5000, None) }

InitUsdc ==
  /\ relayKeypairs = Pool(1)
  /\ currentRelayIndex = 0
  /\ walletLog = <<>>
  /\ isRunning = TRUE
  /\ activeOffers = <<>>
  /\ counters = ZeroCounters
  /\ now = PollIntervalMs
  /\ delivered = 0
  /\ handlers = [h \in Handlers |-> IdleHandler]
  /\ stopCall = IdleStop
  /\ feed = UsdcOffers
  /\ poolCalls = 0
  /\ heartbeat = startHeartbeat(NoHeartbeat)
  /\ poller = subscribeToOffers(NoPoller)
  /\ claimCall = None
  /\ probe = None
  /\ proc = RunningProcess

SpecUsdc == InitUsdc /\ [][Next]_vars

(* Amounts: the running node and base-asset offers whose amount is zero,    *)
(* negative, or no number                                                   *)

AmountOffers ==
  { Offer("a1", "r1", "SOL", <<"0">>, TRUE, 5000, None),
    Offer("a2", "r2", "SOL", <<"-", "5">>, TRUE, 5000, None),
    Offer("a3", "r3", "SOL", <<"a", "b", "c">>, TRUE, 5000, None) }

InitAmounts ==
  /\ relayKeypairs = Pool(1)
  /\ currentRelayIndex = 0
  /\ walletLog = <<>>
  /\ isRunning = TRUE
  /\ activeOffers = <<>>
  /\ counters = ZeroCounters
  /\ now = PollIntervalMs
  /\ delivered = 0
  /\ handlers = [h \in Handlers |-> IdleHandler]
  /\ stopCall = IdleStop
  /\ feed = AmountOffers
  /\ poolCalls = 0
  /\ heartbeat = startHeartbeat(NoHeartbeat)
  /\ poller = subscribeToOffers(NoPoller)
  /\ claimCall = None
  /\ probe = None
  /\ proc = RunningProcess

SpecAmounts == InitAmounts /\ [][Next]_vars

(* The ceiling: the running node, a base-asset offer whose amount is the    *)
(* per-tx ceiling, and USDC offers under and over it                        *)

Amt500M == <<"5", "0", "0", "0", "0", "0", "0", "0", "0">>

CeilingOffers ==
  { Offer("c1", "s1", "SOL", Amt500M, TRUE, 5000, None),
    Offer("c2", "s2", "USDC", Amt600M, TRUE, 5000, None),
    Offer("c3", "s3", "USDC", Amt10M, TRUE, 5000, None) }

InitCeiling ==
  /\ relayKeypairs = Pool(1)
  /\ currentRelayIndex = 0
  /\ walletLog = <<>>
  /\ isRunning = TRUE
  /\ activeOffers = <<>>
  /\ counters = ZeroCounters
  /\ now = PollIntervalMs
  /\ delivered = 0
  /\ handlers = [h \in Handlers |-> IdleHandler]
  /\ stopCall = IdleStop
  /\ feed = CeilingOffers
  /\ poolCalls = 0
  /\ heartbeat = startHeartbeat(NoHeartbeat)
  /\ poller = subscribeToOffers(NoPoller)
  /\ claimCall = None
  /\ probe = None
  /\ proc = RunningProcess

SpecCeiling == InitCeiling /\ [][Next]_vars

(* The per-day cap: the running node, configured with a cap of one and a   *)
(* half offers (limits.perDayLamports of config.json), and two base-asset   *)
(* offers of 10,000,000 lamports each.  No code reads limits.perDayLamports.*)

perDayLamports == 15000000

DayOffers ==
  { Offer("d1", "t1", "SOL", Amt10M, TRUE, 5000, None),
    Offer("d2", "t2", "SOL", Amt10M, TRUE, 5000, None) }

InitDay ==
  /\ relayKeypairs = Pool(1)
  /\ currentRelayIndex = 0
  /\ walletLog = <<>>
  /\ isRunning = TRUE
  /\ activeOffers = <<>>
  /\ counters = ZeroCounters
  /\ now = PollIntervalMs
  /\ delivered = 0
  /\ handlers = [h \in Handlers |-> IdleHandler]
  /\ stopCall = IdleStop
  /\ feed = DayOffers
  /\ poolCalls = 0
  /\ heartbeat = startHeartbeat(NoHeartbeat)
  /\ poller = subscribeToOffers(NoPoller)
  /\ claimCall = None
  /\ probe = None
  /\ proc = RunningProcess

SpecDay == InitDay /\ [][Next]_vars

(* The background timers of the running node: the heartbeat interval, the  *)
(* poll loop, and stop(), which clears the heartbeat interval.  The        *)
(* dispatcher holds the offers of `feed`.                                  *)

InitBackground ==
  /\ relayKeypairs = Pool(MaxRelay)
  /\ currentRelayIndex = 0
  /\ walletLog = <<>>
  /\ isRunning = TRUE
  /\ activeOffers = <<>>
  /\ counters = ZeroCounters
  /\ now = PollIntervalMs
  /\ delivered = 0
  /\ handlers = [h \in Handlers |-> IdleHandler]
  /\ stopCall = IdleStop
  /\ feed = CoreOffers
  /\ poolCalls = 0
  /\ heartbeat = startHeartbeat(NoHeartbeat)
  /\ poller = subscribeToOffers(NoPoller)
  /\ claimCall = None
  /\ probe = None
  /\ proc = RunningProcess

NextBackground ==
  \/ HeartbeatFire
  \/ HealthStatusReturn
  \/ \E resp \in HeartbeatResponses : HeartbeatReturn(resp)
  \/ \E outcome \in PollOutcomes : PollFire(outcome)
  \/ StopBegin
  \/ Disconnected
  \/ HealthStopped

SpecBackground == InitBackground /\ [][NextBackground]_vars

\* a pending timer fires
SpecBackgroundFair ==
  SpecBackground /\ WF_vars(\E outcome \in PollOutcomes : PollFire(outcome))

(* The dispatcher client alone: acceptOffer called directly, the dispatcher *)
(* answering with any HTTP status or not at all                             *)

InitDispatcher ==
  /\ relayKeypairs = Pool(1)
  /\ currentRelayIndex = 0
  /\ walletLog = <<>>
  /\ isRunning = FALSE
  /\ activeOffers = <<>>
  /\ counters = ZeroCounters
  /\ now = PollIntervalMs
  /\ delivered = 0
  /\ handlers = [h \in Handlers |-> IdleHandler]
  /\ stopCall = IdleStop
  /\ feed = {}
  /\ poolCalls = 0
  /\ heartbeat = NoHeartbeat
  /\ poller = NoPoller
  /\ claimCall = None
  /\ probe = None
  /\ proc = RunningProcess

NextDispatcher ==
  \E resp \in {Http(st) : st \in HttpStatuses} \cup {NetErr} : AcceptCall(resp)

SpecDispatcher == InitDispatcher /\ [][NextDispatcher]_vars

(* The balance queries alone: the running node with a pool of one to       *)
(* MaxWallets wallets, and one call of validateBalances, of getBalances or *)
(* of a health endpoint                                                    *)

InitBalances ==
  /\ relayKeypairs \in {Pool(n) : n \in 1..MaxWallets}
  /\ currentRelayIndex = 0
  /\ walletLog = <<>>
  /\ isRunning = TRUE
  /\ activeOffers = <<>>
  /\ counters = ZeroCounters
  /\ now = PollIntervalMs
  /\ delivered = 0
  /\ handlers = [h \in Handlers |-> IdleHandler]
  /\ stopCall = IdleStop
  /\ feed = {}
  /\ poolCalls = 0
  /\ heartbeat = startHeartbeat(NoHeartbeat)
  /\ poller = subscribeToOffers(NoPoller)
  /\ claimCall = None
  /\ probe = None
  /\ proc = RunningProcess

AnswerSeqs == [1..Len(relayKeypairs) -> WalletAnswers]

NextBalances ==
  /\ probe = None
  /\ \/ \E answers \in AnswerSeqs : ValidateBalancesCall(answers)
     \/ \E answers \in AnswerSeqs : GetBalancesCall(answers)
     \/ \E url \in {"/health", "/ready"}, answers \in AnswerSeqs : HealthRequest(url, answers)

SpecBalances == InitBalances /\ [][NextBalances]_vars


-----------------------------------------------------------------------------
(* main, node.start() and the shutdown handlers *)

\* process.exit(code)
Exit(p, code) == [p EXCEPT !.pc = "exited", !.exitCode = Some(code)]

\* a step of the startup failed: main logs and calls process.exit(1)
Fail(p, step) == [Exit(p, 1) EXCEPT !.failed = Some(step)]

\* a step of the startup succeeded; main goes on to pc
Pass(p, step, pc) == [p EXCEPT !.steps = Append(@, step), !.pc = pc]

\* DispatcherClient.connect: "ok", or "throw" on a response that is not ok
\* and on a rejected fetch
connect(resp) ==
  IF resp.kind = "reject" THEN "throw"
  ELSE IF ~ResponseOk(resp) THEN "throw"
  ELSE "ok"

(* main, from its call to the first await of node.start():                 *)
(* validateEnvironment, new ShhNode() (whose WalletManager loads the keys; *)
(* keys is the pool it loaded, or None when it threw), the registration of *)
(* the shutdown handlers, and start() up to the await of getSlot           *)
Boot(envOk, keys) ==
  /\ proc.pc = "start"
  /\ proc' = IF ~envOk THEN Fail(proc, "env")
             ELSE IF keys = None THEN Fail(Pass(proc, "env", "start"), "keys")
             ELSE [Pass(Pass(proc, "env", "start"), "keys", "rpc")
                     EXCEPT !.registered = TRUE]
  /\ relayKeypairs' = IF envOk /\ IsSome(keys) THEN Get(keys) ELSE relayKeypairs
  /\ UNCHANGED <<currentRelayIndex, walletLog, isRunning, activeOffers, counters,
                 now, delivered, handlers, stopCall, feed, poolCalls,
                 heartbeat, poller, claimCall, probe>>

(* validateConnection returned or threw *)
RpcReturn(ok) ==
  /\ proc.pc = "rpc"
  /\ proc' = IF ok THEN Pass(proc, "rpc", "balances") ELSE Fail(proc, "rpc")
  /\ UNCHANGED <<relayKeypairs, currentRelayIndex, walletLog, isRunning, activeOffers,
                 counters, now, delivered, handlers, stopCall, feed, poolCalls,
                 heartbeat, poller, claimCall, probe>>

(* validateBalances returned or threw, the chain having answered `answers` *)
BalancesReturn(answers) ==
  /\ proc.pc = "balances"
  /\ proc' = IF validateBalances(getBalances(relayKeypairs, answers)).threw
               THEN Fail(proc, "balances")
               ELSE Pass(proc, "balances", "ping")
  /\ UNCHANGED <<relayKeypairs, currentRelayIndex, walletLog, isRunning, activeOffers,
                 counters, now, delivered, handlers, stopCall, feed, poolCalls,
                 heartbeat, poller, claimCall, probe>>

(* a start() that goes on after a failed ping *)
PingReturnIgnoresFailure(resp) ==
  /\ proc.pc = "ping"
  /\ proc' = IF connect(resp) = "ok" THEN Pass(proc, "ping", "health")
             ELSE [proc EXCEPT !.pc = "health"]
  /\ UNCHANGED <<relayKeypairs, currentRelayIndex, walletLog, isRunning, activeOffers,
                 counters, now, delivered, handlers, stopCall, feed, poolCalls,
                 heartbeat, poller, claimCall, probe>>

(* dispatcher.connect() returned or threw *)
PingReturn(resp) ==
  /\ proc.pc = "ping"
  /\ proc' = IF connect(resp) = "ok" THEN Pass(proc, "ping", "health")
             ELSE Fail(proc, "ping")
  /\ UNCHANGED <<relayKeypairs, currentRelayIndex, walletLog, isRunning, activeOffers,
                 counters, now, delivered, handlers, stopCall, feed, poolCalls,
                 heartbeat, poller, claimCall, probe>>

(* healthServer.start() returned or threw; when it returned, start() runs  *)
(* to its end: startHeartbeat, onOffer, subscribeToOffers, isRunning       *)
ListenReturn(ok) ==
  /\ proc.pc = "health"
  /\ IF ok
       THEN /\ proc' = Pass(Pass(proc, "health", "health"), "subscribe", "running")
            /\ heartbeat' = startHeartbeat(heartbeat)
            /\ poller' = subscribeToOffers(poller)
            /\ isRunning' = TRUE
       ELSE /\ proc' = Fail(proc, "health")
            /\ UNCHANGED <<heartbeat, poller, isRunning>>
  /\ UNCHANGED <<relayKeypairs, currentRelayIndex, walletLog, activeOffers,
                 counters, now, delivered, handlers, stopCall, feed, poolCalls,
                 claimCall, probe>>

Faults == {"SIGINT", "SIGTERM", "uncaughtException", "unhandledRejection"}

(* a fault handler that exits without stopping the node *)
FaultExitsAtOnce(fault) ==
  /\ proc.registered
  /\ proc' = Exit([proc EXCEPT !.faults = @ + 1], 0)
  /\ UNCHANGED <<relayKeypairs, currentRelayIndex, walletLog, isRunning, activeOffers,
                 counters, now, delivered, handlers, stopCall, feed, poolCalls,
                 heartbeat, poller, claimCall, probe>>

(* the handler of a fault runs shutdown, from its call of node.stop() to   *)
(* the first await of stop(); a stop() of a node that is not running       *)
(* returns at once, and shutdown goes on to process.exit(0)                *)
Fault(fault) ==
  /\ proc.registered
  /\ IF ~isRunning
       THEN /\ proc' = Exit([proc EXCEPT !.faults = @ + 1, !.stops = @ + 1], 0)
            /\ UNCHANGED <<isRunning, heartbeat, stopCall>>
       ELSE /\ proc' = [proc EXCEPT !.faults = @ + 1, !.stops = @ + 1]
            /\ isRunning' = FALSE
            /\ heartbeat' = clearInterval(heartbeat)
            /\ stopCall' =
                 IF Cardinality(DOMAIN activeOffers) > 0
                   THEN DrainLoop([stopCall EXCEPT !.start = now], activeOffers, now,
                                  DrainTimeoutMs)
                   ELSE [stopCall EXCEPT !.pc = "disconnecting"]
  /\ UNCHANGED <<relayKeypairs, currentRelayIndex, walletLog, activeOffers, counters,
                 now, delivered, handlers, feed, poolCalls, poller, claimCall, probe>>

(* shutdown resumes from the await of a node.stop() that ran to its end *)
ShutdownExit ==
  /\ stopCall.pc = "stopped"
  /\ proc' = Exit(proc, 0)
  /\ UNCHANGED <<relayKeypairs, currentRelayIndex, walletLog, isRunning, activeOffers,
                 counters, now, delivered, handlers, stopCall, feed, poolCalls,
                 heartbeat, poller, claimCall, probe>>

(* The process from the call of main: the environment, the keys, the chain *)
(* and the dispatcher answer either way; once start() has returned the     *)
(* callback registered by onOffer is called with the base-asset offer;     *)
(* faults arrive at any time after the handlers were registered (a second  *)
(* fault always ends the process, so no more than two are handled).  The   *)
(* pool loaded has one wallet.  Nothing runs after process.exit.           *)

InitProcess ==
  /\ relayKeypairs = <<>>
  /\ currentRelayIndex = 0
  /\ walletLog = <<>>
  /\ isRunning = FALSE
  /\ activeOffers = <<>>
  /\ counters = ZeroCounters
  /\ now = PollIntervalMs
  /\ delivered = 0
  /\ handlers = [h \in Handlers |-> IdleHandler]
  /\ stopCall = IdleStop
  /\ feed = {DrainOffer}
  /\ poolCalls = 0
  /\ heartbeat = NoHeartbeat
  /\ poller = NoPoller
  /\ claimCall = None
  /\ probe = None
  /\ proc = NewProcess

NextProcess ==
  /\ proc.pc # "exited"
  /\ \/ \E envOk \in BOOLEAN, keys \in {None, Some(Pool(1))} :
          Boot(envOk, keys)
     \/ \E ok \in BOOLEAN : RpcReturn(ok)
     \/ /\ proc.pc = "balances"
        /\ \E answers \in [1..Len(relayKeypairs) -> WalletAnswers] : BalancesReturn(answers)
     \/ \E resp \in HeartbeatResponses : PingReturn(resp)
     \/ \E ok \in BOOLEAN : ListenReturn(ok)
     \/ \E fault \in Faults : Fault(fault)
     \/ ShutdownExit
     \/ /\ proc.pc = "running"
        /\ \/ \E h \in Handlers, offer \in feed : HandleOffer(h, offer)
           \/ \E h \in Handlers, resp \in ClaimResponses : ClaimReturn(h, resp)
           \/ \E h \in Handlers, ok \in BOOLEAN, ataExists \in BOOLEAN :
                BuildReturn(h, ok, ataExists)
           \/ \E h \in Handlers, result \in {None} \cup {Some(s) : s \in Signatures} :
                SendReturn(h, result)
           \/ \E h \in Handlers, resp \in ReceiptResponses : SubmitReturn(h, resp)
           \/ DrainWake
           \/ Disconnected
           \/ HealthStopped

SpecProcess == InitProcess /\ [][NextProcess]_vars


-----------------------------------------------------------------------------
(* DispatcherClient.getAuthHeaders and the calls that use it.  Strings are *)
(* sequences of characters, so that the message signed is the              *)
(* concatenation the template literal builds.  A signature is the pair of  *)
(* the message and the key it was made with.                               *)

DigitChar(d) == CHOOSE c \in Digits : DigitVal(c) = d

\* Number.prototype.toString of an integer n >= 0
RECURSIVE NumberToString(_)
NumberToString(n) ==
  IF n < 10 THEN <<DigitChar(n)>> ELSE NumberToString(n \div 10) \o <<DigitChar(n % 10)>>

NodeKeypair == Keypair(0)

sign(message, keypair) == [message |-> message, key |-> keypair.publicKey]

\* getAuthHeaders signing the timestamp, the method and the path only
getAuthHeadersUnsignedBody(method, path, body, t) ==
  LET timestamp == t
      message == NumberToString(timestamp) \o method \o path
  IN [XNodePubkey |-> NodeKeypair.publicKey,
      XSignature |-> sign(message, NodeKeypair),
      XTimestamp |-> NumberToString(timestamp)]

\* getAuthHeaders(method, path, body) at Date.now() = t
getAuthHeaders(method, path, body, t) ==
  LET timestamp == t
      message == NumberToString(timestamp) \o method \o path \o body
  IN [XNodePubkey |-> NodeKeypair.publicKey,
      XSignature |-> sign(message, NodeKeypair),
      XTimestamp |-> NumberToString(timestamp)]

GET == <<"G", "E", "T">>
POST == <<"P", "O", "S", "T">>

ApiNode == <<"/", "a", "p", "i", "/", "n", "o", "d", "e", "/">>
PingPath == ApiNode \o <<"p", "i", "n", "g">>
OffersPath == ApiNode \o <<"o", "f", "f", "e", "r", "s">>
AcceptPath == ApiNode \o <<"a", "c", "c", "e", "p", "t">>
ReceiptPath == ApiNode \o <<"r", "e", "c", "e", "i", "p", "t">>
HeartbeatPath == ApiNode \o <<"h", "e", "a", "r", "t", "b", "e", "a", "t">>

\* what JSON.stringify makes of an object: text between braces
JsonBodies ==
  { <<"{", "}">>, <<"{", "a", "}">>, <<"{", "a", "}", "}">> }

\* the calls of getAuthHeaders in connect, getOffers, acceptOffer,
\* submitReceipt and sendHeartbeat
AuthCalls ==
  {[method |-> GET, path |-> p, body |-> <<>>] : p \in {PingPath, OffersPath}}
    \cup {[method |-> POST, path |-> p, body |-> b] :
            p \in {AcceptPath, ReceiptPath, HeartbeatPath}, b \in JsonBodies}

\* the requests signed so far
SignedCalls == IF probe = None THEN <<>> ELSE Get(probe).calls

(* a request of the client: its headers are made at the current time *)
AuthCall(call) ==
  /\ Len(SignedCalls) < MaxCalls
  /\ probe' = Some([op |-> "auth",
                    calls |-> Append(SignedCalls,
                      [method |-> call.method, path |-> call.path, body |-> call.body,
                       timestamp |-> now,
                       headers |-> getAuthHeaders(call.method, call.path, call.body, now)])])
  /\ UNCHANGED <<relayKeypairs, currentRelayIndex, walletLog, isRunning, activeOffers,
                 counters, now, delivered, handlers, stopCall, feed, poolCalls,
                 heartbeat, poller, claimCall, proc>>

InitAuth ==
  /\ relayKeypairs = Pool(1)
  /\ currentRelayIndex = 0
  /\ walletLog = <<>>
  /\ isRunning = FALSE
  /\ activeOffers = <<>>
  /\ counters = ZeroCounters
  /\ now = PollIntervalMs
  /\ delivered = 0
  /\ handlers = [h \in Handlers |-> IdleHandler]
  /\ stopCall = IdleStop
  /\ feed = {}
  /\ poolCalls = 0
  /\ heartbeat = NoHeartbeat
  /\ poller = NoPoller
  /\ claimCall = None
  /\ probe = None
  /\ proc = RunningProcess

NextAuth ==
  \/ \E call \in AuthCalls : AuthCall(call)
  \/ Tick

SpecAuth == InitAuth /\ [][NextAuth]_vars


-----------------------------------------------------------------------------
(* WalletManager.getRelayWalletByIndex.  The index is a JavaScript number: *)
(* an integer, an integer plus one half, or NaN; twice is the double of    *)
(* its value.  The result is a wallet, null, or undefined (what indexing   *)
(* an array with a number that is no index of it gives).                   *)

IntIndex(i) == [nan |-> FALSE, twice |-> 2 * i]
HalfIndex(i) == [nan |-> FALSE, twice |-> 2 * i + 1]
NaNIndex == [nan |-> TRUE, twice |-> 0]

Null == [kind |-> "null"]
Undefined == [kind |-> "undefined"]
Wallet(keypair) == [kind |-> "wallet", wallet |-> keypair]

\* keys[index]
ElementAt(keys, index) ==
  IF ~index.nan /\ index.twice % 2 = 0
       /\ index.twice \div 2 >= 0 /\ index.twice \div 2 < Len(keys)
    THEN Wallet(keys[(index.twice \div 2) + 1])
    ELSE Undefined

\* getRelayWalletByIndex accepting the index that is the length of the pool
getRelayWalletByIndexOffByOne(keys, index) ==
  IF ~index.nan /\ (index.twice < 0 \/ index.twice > 2 * Len(keys))
    THEN Null
    ELSE ElementAt(keys, index)

\* index < 0 || index >= length: both comparisons are false for NaN
getRelayWalletByIndex(keys, index) ==
  IF ~index.nan /\ (index.twice < 0 \/ index.twice >= 2 * Len(keys))
    THEN Null
    ELSE ElementAt(keys, index)

IndexInputs ==
  {IntIndex(i) : i \in -2..(MaxRelay + 1)}
    \cup {HalfIndex(i) : i \in -1..MaxRelay} \cup {NaNIndex}

(* a direct caller of getRelayWalletByIndex *)
LookupCall(index) ==
  /\ probe' = Some([op |-> "lookup", index |-> index,
                    result |-> getRelayWalletByIndex(relayKeypairs, index)])
  /\ UNCHANGED <<relayKeypairs, currentRelayIndex, walletLog, isRunning, activeOffers,
                 counters, now, delivered, handlers, stopCall, feed, poolCalls,
                 heartbeat, poller, claimCall, proc>>

(* The wallet pool with lookups by index between the calls of              *)
(* getNextRelayWallet                                                      *)
NextLookup ==
  \/ PoolCall
  \/ \E index \in IndexInputs : LookupCall(index)

SpecLookup == InitPool /\ [][NextLookup]_vars


-----------------------------------------------------------------------------
(* What the claims speak of *)

\* a string of decimal digits and the integer it denotes
IsDecimal(str) == str # <<>> /\ \A i \in 1..Len(str) : str[i] \in Digits

RECURSIVE Pow10(_)
Pow10(n) == IF n = 0 THEN 1 ELSE 10 * Pow10(n - 1)

RECURSIVE AmountValue(_)
AmountValue(str) ==
  IF str = <<>> THEN 0
  ELSE DigitVal(Head(str)) * Pow10(Len(str) - 1) + AmountValue(Tail(str))

\* a base-asset offer whose amount is over the per-tx ceiling
OverCeiling(offer) ==
  offer.asset = "SOL" /\ IsDecimal(offer.amount)
    /\ AmountValue(offer.amount) > MaxPerTxLamports

\* handler h takes a step
Steps(h) == handlers'[h] # handlers[h]

\* handler h resumes from the await of acceptOffer with the claim won
WinsClaim(h) ==
  handlers[h].pc = "claiming" /\ handlers'[h].pc \in {"building", "submitting"}

\* handlers whose offer was inserted and which have not returned
Executing(h) == handlers[h].pc \in {"building", "sending", "submitting"}

\* the wallet at 0-based position i of the pool
WalletAt(i) == relayKeypairs[i + 1]

-----------------------------------------------------------------------------
(* C1. Active-set non-leak: when a handleOffer invocation that inserted    *)
(* its offer returns, whether the receipt it submitted was a success, a    *)
(* failure, or submitReceipt threw, the offer id is not in the active set. *)
C1_ActiveSetNonLeak ==
  [][\A h \in Handlers :
       (Executing(h) /\ handlers'[h].pc = "done")
         => OfferOf(h).id \notin DOMAIN activeOffers']_vars

\* both handlers inserted and returned, one through the catch block, and
\* the active set is empty
C1_Witness ==
  /\ \E h \in Handlers : handlers[h].outcome = "completed"
  /\ \E h \in Handlers : handlers[h].outcome = "failed"
  /\ activeOffers = <<>>

(* C2. Claim-loss safety: the step in which acceptOffer returns false      *)
(* leaves the active set, the counters and the wallet pool as they were    *)
(* (nothing inserted, execute not called), ends the invocation without a   *)
(* submitReceipt call, and a returned invocation never acts again.         *)
C2_ClaimLossSafety ==
  [][\A h \in Handlers :
       /\ (handlers[h].pc = "claiming" /\ handlers'[h].outcome = "lost")
            => /\ activeOffers' = activeOffers
               /\ counters' = counters
               /\ currentRelayIndex' = currentRelayIndex
               /\ walletLog' = walletLog
               /\ handlers'[h].pc = "done"
       /\ handlers[h].pc = "done" => ~Steps(h)]_vars

\* a claim was lost while another offer was active
C2_Witness ==
  \E h, g \in Handlers : handlers[h].outcome = "lost" /\ Executing(g)

(* C3. Per-transaction ceiling: no invocation whose offer is a base-asset  *)
(* offer over the per-tx ceiling ever gets to the claim or beyond.         *)
C3_PerTxCeiling ==
  \A h \in Handlers : InFlight(h) => ~OverCeiling(OfferOf(h))

\* an offer was rejected for the ceiling while the active set was not empty
C3_Witness ==
  \E h \in Handlers :
    handlers[h].outcome = "exceeds per-tx limit" /\ activeOffers # <<>>

(* C4. Insert-then-await: while an invocation is between its admission     *)
(* (validateOffer returned true) and the insertion of its offer, no other  *)
(* invocation takes a step.                                                *)
C4_InsertThenAwait ==
  [][\A h, g \in Handlers :
       (h # g /\ handlers[h].pc = "claiming") => ~Steps(g)]_vars

(* C5. Rotation fairness: direct calls of getNextRelayWallet on a pool of  *)
(* N wallets return, in every window of N consecutive calls, each wallet   *)
(* once; the first N calls return them in insertion order and call N+1     *)
(* returns the first wallet again.                                         *)
C5_RotationFairness ==
  LET N == Len(relayKeypairs)
      L == Len(walletLog)
  IN /\ \A k \in 1..L : k <= N => walletLog[k] = relayKeypairs[k]
     /\ L >= N + 1 => walletLog[N + 1] = relayKeypairs[1]
     /\ \A j \in 1..L : j + N - 1 <= L =>
          {walletLog[k] : k \in j..(j + N - 1)} = {relayKeypairs[i] : i \in 1..N}

\* a pool of two or more wallets was called round more than once
C5_Witness ==
  Len(relayKeypairs) >= 2 /\ Len(walletLog) > Len(relayKeypairs) + 1

(* C6. Cursor atomicity under interleaving: with offers executing          *)
(* concurrently, the k-th call of getNextRelayWallet returns wallet        *)
(* (k-1) mod N, and with N >= 2 no two consecutive calls return the same   *)
(* wallet.                                                                 *)
C6_CursorAtomicity ==
  LET N == Len(relayKeypairs)
  IN /\ \A k \in 1..Len(walletLog) : walletLog[k] = WalletAt((k - 1) % N)
     /\ N >= 2 => \A k \in 1..(Len(walletLog) - 1) : walletLog[k] # walletLog[k + 1]

\* two offers execute at the same time on a pool of two or more wallets
C6_Witness ==
  /\ Len(relayKeypairs) >= 2
  /\ \E h, g \in Handlers :
       h # g /\ handlers[h].pc = "building" /\ handlers[g].pc = "sending"

(* C7. Every claimed offer advances the rotation cursor once, by one       *)
(* position: the step that wins a claim moves the cursor to the next       *)
(* position and takes one wallet, and no other step, whatever receipt the  *)
(* execution ends in, moves the cursor or takes a wallet.                  *)
C7_CursorOncePerClaim ==
  [][IF \E h \in Handlers : WinsClaim(h)
       THEN /\ currentRelayIndex' = (currentRelayIndex + 1) % Len(relayKeypairs)
            /\ Len(walletLog') = Len(walletLog) + 1
       ELSE /\ currentRelayIndex' = currentRelayIndex
            /\ walletLog' = walletLog]_vars

\* two claims were won, one execution failed at the recipient and the
\* other at the send
C7_Witness ==
  /\ Len(walletLog) = 2
  /\ \E h, g \in Handlers :
       /\ handlers[h].pc = "submitting" /\ handlers[g].pc = "submitting"
       /\ Get(handlers[h].receipt).error = Some(InvalidPublicKey)
       /\ Get(handlers[g].receipt).error = Some(SendError)

(* C8. execute always returns a receipt and never raises: an invocation    *)
(* leaves execute only by submitting the receipt execute returned; the     *)
(* receipt carries the offer's partId, and a failure receipt has           *)
(* success=false, an empty txSignature, spentLamports 0, feePaid 0 and a   *)
(* non-empty error string.                                                 *)
NonEmptyMessage(m) == \E i \in 1..Len(m) : m[i] # ""

C9_SuccessReceipt ==
  \A h \in Handlers :
    (handlers[h].pc = "submitting" /\ IsSome(handlers[h].signature)
       /\ OfferOf(h).asset = "SOL" /\ IsDecimal(OfferOf(h).amount))
      => LET r == Get(handlers[h].receipt)
         IN /\ r.success
            /\ r.spentLamports = Num(AmountValue(OfferOf(h).amount))
            /\ r.txSignature = Get(handlers[h].signature)
            /\ r.feePaid = OfferOf(h).feeLamports
            /\ r.partId = OfferOf(h).partId

\* the offer of amount 10,000,000 was sent with signature SIG1
C9_Witness ==
  \E h \in Handlers :
    /\ handlers[h].pc = "submitting"
    /\ OfferOf(h).amount = Amt10M
    /\ Get(handlers[h].receipt) =
         [partId |-> "p1", txSignature |-> "SIG1", spentLamports |-> Num(10000000),
          feePaid |-> 5000, success |-> TRUE, error |-> None]

(* C10. Shutdown drain terminates: with an offer that stays in execution,  *)
(* a stop() that waits for active offers returns; it logs the abandoned-   *)
(* offer warning once, and only when the drain timeout has elapsed.        *)
AfterDrain == stopCall.pc \in {"disconnecting", "stoppingHealth", "stopped"}

C10_ShutdownDrainTerminates ==
  /\ (stopCall.pc = "sleeping") ~> (stopCall.pc = "stopped")
  /\ [](stopCall.warnings <= 1)
  /\ []((AfterDrain /\ activeOffers # <<>>) => stopCall.warnings = 1)
  /\ [](stopCall.warnings = 1 => now - stopCall.start >= DrainTimeoutMs)

\* stop() returned with the offer still executing and one warning logged
C10_Witness ==
  /\ stopCall.pc = "stopped"
  /\ stopCall.warnings = 1
  /\ handlers[1].pc = "sending"
  /\ activeOffers # <<>>

(* C11. Shutdown stops new admissions immediately: a handleOffer           *)
(* invocation that starts once stop() has set isRunning to false does not  *)
(* call acceptOffer (it is not suspended at the claim afterwards), so its  *)
(* offer is neither claimed nor inserted into the active set.              *)
C11_StopRefusesNewOffers ==
  [][\A h \in Handlers :
       (~isRunning /\ handlers[h].pc = "idle") => handlers'[h].pc # "claiming"]_vars

(* C12. Shutdown does not cancel: no step of stop() changes the active set *)
(* or the state of a handleOffer invocation; an entry leaves the active    *)
(* set only in a step of an invocation handling an offer of that id, also  *)
(* after the drain gave up.                                                *)
C12_StopDoesNotCancel ==
  [][/\ stopCall' # stopCall => (activeOffers' = activeOffers /\ handlers' = handlers)
     /\ \A id \in DOMAIN activeOffers \ DOMAIN activeOffers' :
          \E h \in Handlers :
            Steps(h) /\ IsSome(handlers[h].offer) /\ OfferOf(h).id = id]_vars

\* stop() gave up the drain with an offer still active and returned; the
\* offer's invocation then submitted its receipt and emptied the set
C12_Witness ==
  /\ stopCall.pc = "stopped"
  /\ stopCall.warnings = 1
  /\ \E h \in Handlers : handlers[h].outcome = "completed"
  /\ \A h \in Handlers : ~InFlight(h)
  /\ activeOffers = <<>>

(* C13. Claim result mapping: acceptOffer returns true for a response with *)
(* a status from 200 to 299, returns false without raising for status 409, *)
(* and raises for every other status; it also raises when the request      *)
(* itself fails.                                                           *)
C13_ClaimResultMapping ==
  IsSome(claimCall) =>
    LET resp == Get(claimCall).response
        result == Get(claimCall).result
    IN IF resp.kind = "http" /\ resp.status \in 200..299 THEN result = "true"
       ELSE IF resp.kind = "http" /\ resp.status = 409 THEN result = "false"
       ELSE result = "throw"

\* the dispatcher answered 409 and acceptOffer returned false
C13_Witness ==
  IsSome(claimCall) /\ Get(claimCall) = [response |-> Http(409), result |-> "false"]

(* C14. Claim error is dropped, not retried: the step in which acceptOffer *)
(* throws ends the invocation (no second acceptOffer call, no execute, no  *)
(* submitReceipt: the wallet pool, offersAccepted and offersCompleted are  *)
(* as before), the offer id is not in the active set after it, and the     *)
(* invocation never acts again.                                            *)
C14_ClaimErrorDropped ==
  [][\A h \in Handlers :
       /\ (handlers[h].pc = "claiming" /\ handlers'[h].outcome = "claimError")
            => /\ handlers'[h].pc = "done"
               /\ OfferOf(h).id \notin DOMAIN activeOffers'
               /\ currentRelayIndex' = currentRelayIndex
               /\ walletLog' = walletLog
               /\ counters'.offersAccepted = counters.offersAccepted
               /\ counters'.offersCompleted = counters.offersCompleted
       /\ handlers[h].outcome = "claimError" => handlers'[h] = handlers[h]]_vars

\* a claim threw while another offer was being executed
C14_Witness ==
  \E h, g \in Handlers : handlers[h].outcome = "claimError" /\ handlers[g].pc = "sending"

(* C15. Admission failure is a silent drop: an invocation whose offer      *)
(* validateOffer rejects (ceiling, capacity or expiry) returns at once     *)
(* without calling acceptOffer and without an error, and leaves the active *)
(* set, the rotation cursor, the wallets taken and every counter as they   *)
(* were.                                                                   *)
AdmissionWarnings == {"exceeds per-tx limit", "At capacity", "has expired"}

C15_AdmissionSilentDrop ==
  [][\A h \in Handlers :
       (handlers[h].pc = "idle" /\ handlers'[h].pc # "claiming" /\ Steps(h))
         => /\ handlers'[h].pc = "done"
            /\ handlers'[h].outcome \in AdmissionWarnings
            /\ activeOffers' = activeOffers
            /\ currentRelayIndex' = currentRelayIndex
            /\ walletLog' = walletLog
            /\ counters' = counters]_vars

\* one offer was rejected as expired and another for the ceiling
C15_Witness ==
  /\ \E h \in Handlers : handlers[h].outcome = "has expired"
  /\ \E h \in Handlers : handlers[h].outcome = "exceeds per-tx limit"

(* C16. Receipt submission failure: the step in which submitReceipt throws *)
(* ends the invocation with the offer id out of the active set,            *)
(* offersFailed one higher and offersCompleted as before; every step of an *)
(* invocation suspended at submitReceipt ends it, so there is one          *)
(* submission attempt per claimed offer.                                   *)
C16_ReceiptSubmissionFailure ==
  [][\A h \in Handlers :
       /\ (handlers[h].pc = "submitting" /\ handlers'[h].outcome = "failed")
            => /\ OfferOf(h).id \notin DOMAIN activeOffers'
               /\ counters'.offersFailed = counters.offersFailed + 1
               /\ counters'.offersCompleted = counters.offersCompleted
       /\ (handlers[h].pc = "submitting" /\ Steps(h)) => handlers'[h].pc = "done"]_vars

\* the receipt of the only claimed offer could not be submitted
C16_Witness ==
  /\ \E h \in Handlers : handlers[h].outcome = "failed"
  /\ counters.offersAccepted = 1
  /\ counters.offersFailed = 1
  /\ counters.offersCompleted = 0
  /\ activeOffers = <<>>

(* C17. Offer handling never propagates: whatever admission, the claim     *)
(* (true, false, throw), the execution (success or failure receipt) and    *)
(* the receipt submission (ok, throw) result in, every step of a           *)
(* handleOffer invocation either suspends it at its next await or ends it  *)
(* by a return, from the try block or from the catch block; none ends it   *)
(* by an error raised to the caller.                                       *)
ReturnOutcomes == AdmissionWarnings \cup {"lost", "claimError", "completed", "failed"}

C17_HandleOfferNeverRaises ==
  [][\A h \in Handlers :
       Steps(h) =>
         \/ handlers'[h].pc \in {"claiming", "building", "sending", "submitting"}
         \/ handlers'[h].pc = "done" /\ handlers'[h].outcome \in ReturnOutcomes]_vars

\* one invocation ended in the catch block at the claim, the other in the
\* catch block at the receipt submission
C17_Witness ==
  /\ \E h \in Handlers : handlers[h].outcome = "claimError"
  /\ \E h \in Handlers : handlers[h].outcome = "failed"

(* C18. Heartbeat failure is counted and contained: the step in which a    *)
(* heartbeat fails (sendHeartbeat saw a non-success response and logged    *)
(* it, or the request threw and the callback logged it) increments         *)
(* heartbeatErrors and not heartbeats, ends that invocation of the         *)
(* callback and leaves the interval timer set.                             *)
C18_HeartbeatFailureCounted ==
  [][(heartbeat'.warned > heartbeat.warned \/ heartbeat'.caught > heartbeat.caught)
       => /\ counters'.heartbeatErrors = counters.heartbeatErrors + 1
          /\ counters'.heartbeats = counters.heartbeats
          /\ heartbeat'.atSend = heartbeat.atSend - 1
          /\ heartbeat'.armed = heartbeat.armed]_vars

(* C19. Offer delivery: a poll of the background loop calls the registered *)
(* offer callback once for each offer the dispatcher holds, so after the   *)
(* poll handleOffer has been called once more for each of them.            *)
C19_PollDeliversOffers ==
  [][poller'.polls # poller.polls => delivered' = delivered + Cardinality(feed)]_vars

(* C20. The poll loop never terminates on error: every poll, whether its   *)
(* try block threw or not, leaves one poll timer pending, there is one     *)
(* pending at all times after subscribeToOffers, and polls occur again and *)
(* again.                                                                  *)
C20_PollLoopNeverTerminates ==
  /\ [](poller.pending = 1)
  /\ [][poller'.polls # poller.polls => poller'.pending = 1]_vars
  /\ []<><<\E outcome \in PollOutcomes : PollFire(outcome)>>_vars

\* the try block of the second poll threw and the next poll is pending
C20_Witness ==
  poller.polls = 2 /\ poller.lastThrew /\ poller.pending = 1

-----------------------------------------------------------------------------
(* What the balance claims speak of: the primary balance of a wallet is    *)
(* the balance the chain answered, and counts as 0 when the query failed   *)

ProbeIs(ops) == IsSome(probe) /\ Get(probe).op \in ops

PrimaryFailed(answer) == answer.sol = None

BelowMinimum(answer) == PrimaryFailed(answer) \/ Get(answer.sol) < 10000000

(* C21. Balance validation threshold: validateBalances fails exactly when  *)
(* every relay wallet's primary balance is below 0.01 SOL (10,000,000      *)
(* lamports); otherwise it succeeds, and it logs the warning exactly when  *)
(* some wallet is below.                                                   *)
C21_BalanceValidationThreshold ==
  ProbeIs({"validateBalances"}) =>
    LET answers == Get(probe).answers
        result == Get(probe).result
    IN /\ result.threw <=> \A i \in DOMAIN answers : BelowMinimum(answers[i])
       /\ result.warned <=> \E i \in DOMAIN answers : BelowMinimum(answers[i])

\* balances 0.005, 0.02 and 0.0 SOL: validateBalances warned and succeeded
C21_Witness ==
  /\ ProbeIs({"validateBalances"})
  /\ Len(Get(probe).answers) = 3
  /\ [i \in 1..3 |-> Get(probe).answers[i].sol] = <<Some(5000000), Some(20000000), Some(0)>>
  /\ Get(probe).result = [warned |-> TRUE, threw |-> FALSE]

(* C22. getBalances never fails as a whole: it returns one entry per relay *)
(* wallet, in pool order; a wallet whose primary query failed has balance  *)
(* 0 and is inactive, a wallet whose USDC lookup failed has no USDC        *)
(* balance and its primary balance as answered, and every other wallet has *)
(* the balances the chain answered for it.                                 *)
C22_GetBalancesNeverFails ==
  ProbeIs({"getBalances"}) =>
    LET answers == Get(probe).answers
        result == Get(probe).result
    IN /\ Len(result) = Len(relayKeypairs)
       /\ \A i \in 1..Len(relayKeypairs) :
            /\ result[i].publicKey = relayKeypairs[i].publicKey
            /\ PrimaryFailed(answers[i])
                 => (result[i].balanceSOL = 0 /\ ~result[i].isActive)
            /\ ~PrimaryFailed(answers[i])
                 => /\ result[i].balanceSOL = Get(answers[i].sol)
                    /\ result[i].balanceUSDC = answers[i].usdc

\* the primary query of the first wallet failed, the USDC lookup of the
\* second failed, and the second still has its primary balance
C22_Witness ==
  /\ ProbeIs({"getBalances"})
  /\ Len(relayKeypairs) >= 2
  /\ PrimaryFailed(Get(probe).answers[1])
  /\ Get(probe).answers[2] = Answer(Some(20000000), None)
  /\ Get(probe).result[2].balanceSOL = 20000000
  /\ Get(probe).result[2].balanceUSDC = None

(* C23. Health mapping: the status is unhealthy when every wallet is below *)
(* 0.01 SOL, degraded when some but not all are, healthy when none is;     *)
(* GET /health answers 200 for healthy and degraded and 503 for unhealthy; *)
(* GET /ready answers 200 exactly when the status is not unhealthy and a   *)
(* wallet is active (its primary balance is at least 0.001 SOL), else 503. *)
C23_HealthMapping ==
  ProbeIs({"/health", "/ready"}) =>
    LET answers == Get(probe).answers
        status == Get(probe).status
        result == Get(probe).result
        below == {i \in DOMAIN answers : BelowMinimum(answers[i])}
        active == {i \in DOMAIN answers :
                     ~PrimaryFailed(answers[i]) /\ Get(answers[i].sol) >= 1000000}
    IN /\ status = (IF below = DOMAIN answers THEN "unhealthy"
                    ELSE IF below # {} THEN "degraded" ELSE "healthy")
       /\ Get(probe).op = "/health" => result = (IF status = "unhealthy" THEN 503 ELSE 200)
       /\ Get(probe).op = "/ready" =>
            result = (IF status # "unhealthy" /\ active # {} THEN 200 ELSE 503)

\* GET /ready answered 503 for a node whose wallets are all below the
\* minimum although one of them is active
C23_Witness ==
  /\ ProbeIs({"/ready"})
  /\ Get(probe).status = "unhealthy"
  /\ Get(probe).result = 503
  /\ \E i \in DOMAIN Get(probe).answers : Get(probe).answers[i].sol = Some(5000000)

(* C24. Active-set membership: in every reachable state, every id in the   *)
(* active-offer set is the id of an offer whose claim was won and whose    *)
(* handler has not yet returned from submitting the receipt or from its    *)
(* catch block; an offer that is unclaimed, was rejected, lost or is       *)
(* resolved has its id in the set only if such a handler holds the same id.*)
C24_ActiveSetMembership ==
  \A id \in DOMAIN activeOffers :
    \E h \in Handlers : Executing(h) /\ OfferOf(h).id = id

\* one invocation has completed and removed its id, another holds the only
\* entry of the set
C24_Witness ==
  /\ \E h \in Handlers : Executing(h) /\ DOMAIN activeOffers = {OfferOf(h).id}
  /\ \E g \in Handlers : handlers[g].pc = "done" /\ handlers[g].outcome = "completed"

\* acceptOffer is called for the offer of handler h in this step
Claims(h) == handlers[h].pc = "idle" /\ handlers'[h].pc = "claiming"

(* C25. Expired offers are inadmissible: an offer whose expiry is set and  *)
(* lies before the current time when it is received is never claimed, for  *)
(* every expiry value including 0.                                         *)
C25_ExpiredNeverClaimed ==
  [][\A h \in Handlers :
       Claims(h) =>
         LET offer == Get(handlers'[h].offer)
         IN ~(IsSome(offer.expiresAt) /\ Get(offer.expiresAt) < now)]_vars

\* the steps node.start() needs before it subscribes
GatingSteps == <<"env", "keys", "rpc", "balances", "ping">>

(* C26. Startup gating: the node has subscribed to offers, is running or   *)
(* has handled an offer only if environment validation, key loading, the   *)
(* RPC check, validateBalances and the dispatcher ping succeeded, in that  *)
(* order; if a step of the startup failed, the process exited with code 1, *)
(* isRunning is false, nothing is subscribed and no offer was handled.     *)
C26_StartupGating ==
  /\ (isRunning \/ proc.pc = "running" \/ poller.pending > 0 \/ delivered > 0)
       => (Len(proc.steps) >= 5 /\ SubSeq(proc.steps, 1, 5) = GatingSteps)
  /\ IsSome(proc.failed)
       => /\ proc.exitCode = Some(1)
          /\ ~isRunning
          /\ poller.pending = 0
          /\ delivered = 0

\* the node started from main is running and has completed an offer
C26_Witness ==
  /\ isRunning
  /\ proc.steps = StartupSteps
  /\ \E h \in Handlers : handlers[h].pc = "done" /\ handlers[h].outcome = "completed"

(* C27. Once main has registered its handlers, every fault (SIGINT,        *)
(* SIGTERM, uncaught exception, unhandled rejection) calls node.stop(),    *)
(* and the process exits after a fault only when node.stop() was called    *)
(* for every fault it handled.                                             *)
C27_FaultTriggersStop ==
  [][/\ proc'.faults > proc.faults
        => (proc'.stops = proc.stops + 1 /\ ~isRunning')
     /\ (proc.pc # "exited" /\ proc'.pc = "exited" /\ proc'.faults > 0)
        => (proc'.stops = proc'.faults /\ proc'.exitCode = Some(0))]_vars

\* the process exited after a fault stopped the running node and stop()
\* ran to its end
C27_Witness ==
  /\ proc.pc = "exited"
  /\ proc.faults = 1
  /\ proc.stops = 1
  /\ stopCall.pc = "stopped"

\* the request a signed call was made for
RequestOf(c) == <<c.method, c.path, c.body>>

LookupReturns == probe' # probe /\ IsSome(probe') /\ Get(probe').op = "lookup"

(* C29. getRelayWalletByIndex is a pure bounds-checked lookup: for an      *)
(* integer i with 0 <= i < N it returns the i-th relay wallet, for every   *)
(* other integer i it returns null, for a number that is no integer it     *)
(* returns no wallet; it raises no error and never changes the rotation    *)
(* cursor or the pool.                                                     *)
C29_WalletByIndex ==
  [][LookupReturns =>
       LET index == Get(probe').index
           result == Get(probe').result
           i == index.twice \div 2
           N == Len(relayKeypairs)
       IN /\ (~index.nan /\ index.twice % 2 = 0 /\ 0 <= i /\ i < N)
               => result = Wallet(WalletAt(i))
          /\ (~index.nan /\ index.twice % 2 = 0 /\ ~(0 <= i /\ i < N))
               => result = Null
          /\ (index.nan \/ index.twice % 2 = 1) => result.kind # "wallet"
          /\ currentRelayIndex' = currentRelayIndex
          /\ relayKeypairs' = relayKeypairs
          /\ walletLog' = walletLog]_vars

\* after the rotation has advanced, the lookup of the index N returned
\* null and the cursor is where the rotation left it
C29_Witness ==
  /\ ProbeIs({"lookup"})
  /\ Get(probe).index = IntIndex(Len(relayKeypairs))
  /\ Get(probe).result = Null
  /\ currentRelayIndex = 1
  /\ poolCalls = 1

\* execute returned a success receipt for the USDC offer of handler h
UsdcExecuted(h) ==
  /\ handlers[h].pc = "submitting"
  /\ OfferOf(h).asset = "USDC"
  /\ Get(handlers[h].receipt).success

(* C30. Secondary-asset spent accounting: the receipt of a successfully    *)
(* executed USDC offer has spentLamports 0 when the recipient's token      *)
(* account existed and 2,000,000 when the transaction had to create it,    *)
(* whatever the token amount transferred.                                  *)
C30_UsdcSpentAccounting ==
  \A h \in Handlers :
    UsdcExecuted(h) =>
      Get(handlers[h].receipt).spentLamports =
        (IF handlers[h].createsAta THEN Num(2000000) ELSE Num(0))

\* a USDC offer of 10,000,000 units was executed with the account created,
\* and its receipt counts 2,000,000 lamports
C30_Witness ==
  \E h \in Handlers :
    /\ UsdcExecuted(h)
    /\ handlers[h].createsAta
    /\ OfferOf(h).amount = Amt10M
    /\ Get(handlers[h].receipt).spentLamports = Num(2000000)

(* C31. Capacity bound: in every reachable state, under any interleaving   *)
(* of concurrently arriving offers, the size of the active-offer set is at *)
(* most maxConcurrent.                                                     *)
C31_CapacityBound == Cardinality(DOMAIN activeOffers) <= maxConcurrent

(* C32. Executing implies active: in every reachable state, every offer    *)
(* whose handler is between a successful claim and the end of its receipt  *)
(* submission is in the active-offer set, also when the same offer id is   *)
(* delivered a second time and the claim of the second handler returns     *)
(* false or throws.                                                        *)
C32_ExecutingImpliesActive ==
  \A h \in Handlers : Executing(h) => OfferOf(h).id \in DOMAIN activeOffers

\* the offers claimed and not yet resolved
Unresolved == {h \in Handlers : Executing(h)}

(* C33. Metrics conservation: in every reachable state offersAccepted =    *)
(* offersCompleted + offersFailed + the number of offers claimed and not   *)
(* yet resolved; in particular offersCompleted + offersFailed never        *)
(* exceeds offersAccepted, also after a claim request that threw.          *)
C33_MetricsConservation ==
  counters.offersAccepted =
    counters.offersCompleted + counters.offersFailed + Cardinality(Unresolved)

\* handleOffer returns in this step, having submitted a receipt of a failed
\* execution
ReturnsAfterFailedExecution(h) ==
  /\ handlers[h].pc = "submitting"
  /\ ~Get(handlers[h].receipt).success
  /\ handlers'[h].pc = "done"

(* C34. Failure is recorded as failure: an offer whose execution receipt   *)
(* has success = false is counted in offersFailed and never in             *)
(* offersCompleted, even when its receipt was submitted to the dispatcher  *)
(* successfully.                                                           *)
C34_FailureRecordedAsFailure ==
  [][\A h \in Handlers :
       ReturnsAfterFailedExecution(h)
         => /\ counters'.offersFailed = counters.offersFailed + 1
            /\ counters'.offersCompleted = counters.offersCompleted]_vars

(* C35. No execution after expiry: no offer with an expiry begins          *)
(* execution (executor.execute is called) at a time later than its expiry, *)
(* even when the claim request was pending while the expiry passed.        *)
C35_NoExecutionAfterExpiry ==
  [][\A h \in Handlers :
       WinsClaim(h)
         => ~(IsSome(OfferOf(h).expiresAt) /\ now > Get(OfferOf(h).expiresAt))]_vars

(* C36. Exit only after drain: when shutdown is triggered more than once   *)
(* while offers are active, the process does not exit before the first     *)
(* stop() has finished draining (the active set is empty or the drain      *)
(* timeout has elapsed).                                                   *)
C36_ExitOnlyAfterDrain ==
  (proc.pc = "exited" /\ proc.faults > 1) => stopCall.pc # "sleeping"

\* the amount is a positive integer in decimal digits
PositiveInteger(str) == IsDecimal(str) /\ AmountValue(str) > 0

(* C37. Only valid amounts are executed: every offer that is claimed and   *)
(* reaches execution has an amount that is a positive integer; an offer    *)
(* whose amount is zero, negative or not a number is never claimed.        *)
C37_OnlyValidAmounts ==
  [][\A h \in Handlers :
       /\ Claims(h) => PositiveInteger(Get(handlers'[h].offer).amount)
       /\ WinsClaim(h) => PositiveInteger(OfferOf(h).amount)]_vars

\* a base-asset offer of exactly the ceiling, or a USDC offer
CeilingExempt(offer) ==
  \/ offer.asset = "USDC"
  \/ offer.asset = "SOL" /\ IsDecimal(offer.amount)
       /\ AmountValue(offer.amount) = 500000000

\* handleOffer is called for handler h in this step
Received(h) == handlers[h].pc = "idle" /\ handlers'[h].pc # "idle"

(* C38. The ceiling applies to the base asset only and is inclusive: when  *)
(* every offer delivered is a SOL offer whose amount equals the per-tx     *)
(* ceiling or a USDC offer of any amount, no offer is rejected with the    *)
(* per-tx warning, and an offer received while the node has capacity is    *)
(* admitted to the claim.                                                  *)
C38_CeilingBaseAssetInclusive ==
  [][\A h \in Handlers :
       (Received(h) /\ \A offer \in feed : CeilingExempt(offer) /\ offer.expiresAt = None)
         => /\ handlers'[h].outcome # "exceeds per-tx limit"
            /\ Cardinality(DOMAIN activeOffers) < maxConcurrent
                 => (handlers'[h].pc = "claiming"
                       /\ CeilingExempt(Get(handlers'[h].offer)))]_vars

\* the SOL offer of exactly the ceiling and the USDC offer over it are both
\* at their claim
C38_Witness ==
  \E h, g \in Handlers :
    /\ handlers[h].pc = "claiming" /\ handlers[g].pc = "claiming"
    /\ OfferOf(h).asset = "SOL" /\ OfferOf(h).amount = Amt500M
    /\ OfferOf(g).asset = "USDC" /\ OfferOf(g).amount = Amt600M

\* the base-asset amount the node has claimed, every offer delivered being
\* a base-asset offer of 10,000,000 lamports
ClaimedLamports == counters.offersAccepted * 10000000

(* C39. Per-day cap: over any sequence of handled offers, the total        *)
(* base-asset amount of the offers the node claims within one day never    *)
(* exceeds the configured per-day cap (perDayLamports).                    *)
C39_PerDayCap ==
  (\A offer \in feed : offer.asset = "SOL" /\ offer.amount = Amt10M)
    => ClaimedLamports <= perDayLamports

(* C40. Received dominates accepted: in every reachable state the          *)
(* offersReceived counter is at least the offersAccepted counter.          *)
C40_ReceivedDominatesAccepted ==
  counters.offersReceived >= counters.offersAccepted

=============================================================================
